---- MODULE Spec2Model ----
(***************************************************************************)
(* Model of the conversational intent orchestrator of                      *)
(* backend/orchestrator.py (OllamaOrchestrator.process_conversation and    *)
(* its helpers).  One conversation threads one session context through a   *)
(* sequence of process_conversation calls.                                 *)
(*                                                                         *)
(* Encoding of Python values:                                              *)
(*   - an optional number (None or a value) is a sequence: <<>> is None,   *)
(*     <<v>> is the value v; Truthy is Python truthiness (None and 0 are   *)
(*     falsy);                                                             *)
(*   - an optional account type is a string, "" standing for None;         *)
(*   - amounts and numeric messages are counted in half dollars, so that   *)
(*     int() truncation is visible (3 is 1.5, int(1.5) = 1);               *)
(*   - float('inf') and float('nan') are the amounts InfAmt and NaNAmt.    *)
(***************************************************************************)
EXTENDS Integers, Sequences, FiniteSets, TLC

\* ------------------------------------------------------------------ bounds
\* largest number of accounts in a snapshot
MaxAcct == 2
\* largest check count a user states
MaxCount == 2
\* largest number of rows of the sessions table
MaxSessions == 3

\* ------------------------------------------------------- program constants
\* upper limit of the number of checks of one deposit
MaxNumChecks == 50
\* wrong PINs after which a session is locked
pin_max_attempts == 3

\* ------------------------------------------------------------ Python values
None == <<>>
Some(v) == <<v>>
Truthy(o) == o # <<>> /\ o[1] # 0
InfAmt == 1000000
NaNAmt == 1000001

\* int(x) of a float counted in half dollars: truncation toward zero
IntOf(h) == IF h >= 0 THEN h \div 2 ELSE -((-h) \div 2)

\* x <= 0 on floats: false for inf and for nan
LeqZero(h) == h # InfAmt /\ h # NaNAmt /\ h <= 0

\* ------------------------------------------------------------------- data
AccountTypes == {"CHECKING", "SAVINGS"}
\* an optional account type; "" is None
OptTypes == AccountTypes \cup {""}

\* the account snapshots: accounts 1..n in the order of the list, each with
\* its canonical type
Snapshots == UNION {[1..n -> [id : 1..MaxAcct, type : AccountTypes]] : n \in 0..MaxAcct}
AccountSnapshots == {s \in Snapshots : \A i \in DOMAIN s : s[i].id = i}

\* an id that no snapshot holds
StaleId == MaxAcct + 1

\* the keywords the post-correction looks for in the raw message
Keywords == [cash : BOOLEAN, check : BOOLEAN]
NoKeywords == [cash |-> FALSE, check |-> FALSE]

\* the finite numbers a user sends, in half dollars: 0, the counts
\* 1..MaxCount, and 51.5 (above the largest count the code accepts)
NumberValues == {0, 2 * MaxNumChecks + 3} \cup {2 * n : n \in 1..MaxCount}

\* the texts without a number: no keyword, a cash keyword, a check keyword
TextKeywords == {w \in Keywords : ~(w.cash /\ w.check)}

\* the messages a user sends: "Use account id: <val>", a text float() parses
\* to the finite value val, to inf or to nan, and any other text
Messages ==
    {[kind |-> "select", val |-> n, kw |-> NoKeywords] : n \in 0..StaleId}
    \cup {[kind |-> "number", val |-> h, kw |-> NoKeywords] :
            h \in NumberValues}
    \cup {[kind |-> k, val |-> 0, kw |-> NoKeywords] : k \in {"inf", "nan"}}
    \cup {[kind |-> "text", val |-> 0, kw |-> w] : w \in TextKeywords}

\* _check_collection_state of an intent; an absent state is EmptyCollection
EmptyCollection == [num_checks |-> None, checks |-> <<>>]

Operations == {"WITHDRAW", "DEPOSIT", "CASH_DEPOSIT", "CHECK_DEPOSIT", "TRANSFER",
               "PAYMENT", "BALANCE_INQUIRY", "CHANGE_PIN"}

\* the intent with every slot null
NullIntent(op) ==
    [operation |-> op, account_id |-> None, account_type |-> "", amount |-> None,
     source_account_id |-> None, destination_account_id |-> None,
     from_account_id |-> None, to_account_id |-> None,
     source_account_type |-> "", destination_account_type |-> "",
     is_external |-> FALSE, check_collection_state |-> EmptyCollection]

\* what the generator may put into an intent.  A slot is filled with an id
\* or described by a type (the prompt asks for types, not ids); the slots an
\* operation does not read stay null.
LLMAmounts == {None, Some(0), Some(-20), Some(101)}
LLMAccountSlots ==
    {[id |-> None, type |-> t] : t \in {"", "SAVINGS"}}
    \cup {[id |-> Some(n), type |-> ""] : n \in {1, StaleId}}
LLMSourceSlots ==
    {[id |-> None, type |-> t] : t \in {"", "CHECKING"}} \cup {[id |-> Some(1), type |-> ""]}
LLMDestinationSlots ==
    {[id |-> None, type |-> t, ext |-> FALSE] : t \in OptTypes}
    \cup {[id |-> None, type |-> "", ext |-> TRUE], [id |-> Some(2), type |-> "", ext |-> FALSE]}

\* the JSON objects the generator returns, read as the intent schema, by
\* the topic of the conversation
AccountIntents ==
    {[NullIntent("WITHDRAW") EXCEPT !.account_id = a.id, !.account_type = a.type,
                                    !.amount = m] :
        a \in LLMAccountSlots, m \in LLMAmounts}
    \cup
    {[NullIntent(op) EXCEPT !.account_id = a.id, !.account_type = a.type] :
        op \in {"BALANCE_INQUIRY", "CHANGE_PIN"}, a \in LLMAccountSlots}
    \cup
    {NullIntent(op) : op \in {"PAYMENT", "BOGUS"}}

DepositIntents ==
    {[NullIntent("CASH_DEPOSIT") EXCEPT !.account_id = a.id, !.account_type = a.type,
                                        !.amount = m] :
        a \in LLMAccountSlots, m \in {None, Some(101)}}
    \cup
    {[NullIntent(op) EXCEPT !.account_id = a.id, !.account_type = a.type] :
        op \in {"DEPOSIT", "CHECK_DEPOSIT"}, a \in LLMAccountSlots}

TransferIntents ==
    {[NullIntent("TRANSFER") EXCEPT !.source_account_id = s.id, !.source_account_type = s.type,
         !.destination_account_id = d.id, !.destination_account_type = d.type,
         !.is_external = d.ext, !.amount = m] :
        s \in LLMSourceSlots, d \in LLMDestinationSlots, m \in LLMAmounts \ {Some(0)}}

Topics == {"ACCOUNT", "DEPOSIT", "TRANSFER"}

LLMIntents(t) ==
    CASE t = "ACCOUNT" -> AccountIntents
      [] t = "DEPOSIT" -> DepositIntents
      [] t = "TRANSFER" -> TransferIntents

\* what get_intent_from_llm returns in a conversation on topic t: None (the
\* generator is unreachable, or its text holds no parseable JSON object) or
\* an intent
LLMOutcomes(t) == {None} \cup {Some(i) : i \in LLMIntents(t)}

\* ---------------------------------------------------------------- results
\* a result with none of the optional keys; error "None" is Python None,
\* error "" is an absent key
NoResult ==
    [success |-> FALSE, error |-> "", has_message |-> FALSE,
     clarification_needed |-> "absent", question |-> "", ask_index |-> 0,
     options |-> <<>>, missing_fields |-> <<>>,
     has_flow_steps |-> FALSE, flow_steps |-> <<>>,
     transaction_intent |-> None, raised |-> ""]

\* ErrorResult that reports success next to its error code
ErrorResultSucceeding(code) ==
    [NoResult EXCEPT !.success = TRUE, !.error = code, !.has_message = TRUE]

\* a failure with an error code and a message
ErrorResult(code) ==
    [NoResult EXCEPT !.error = code, !.has_message = TRUE]

Clarification(needed, q, opts, missing) ==
    [NoResult EXCEPT !.error = "MISSING_FIELDS", !.clarification_needed = needed,
                     !.question = q, !.options = opts, !.missing_fields = missing]

Finalized(intent, steps) ==
    [NoResult EXCEPT !.success = TRUE, !.error = "None", !.has_message = TRUE,
                     !.has_flow_steps = TRUE, !.flow_steps = steps,
                     !.transaction_intent = Some(intent)]

Raised(exc) == [NoResult EXCEPT !.raised = exc]

\* a flow step; the data keys a step does not carry stay null
Step(name) ==
    [step |-> name, account_id |-> None, amount |-> None, checks |-> <<>>,
     has_denominations |-> FALSE, denominations |-> <<>>, is_external |-> FALSE]

\* ---------------------------------------------------------- pure helpers
\* the bill counts <<100s, 50s, 20s, 10s, 5s, 1s>> and the coins amount of an
\* amount in half dollars; draw is the value of
\* random.randint(0, remaining // 50)
simulate_bill_breakdown(amount, draw) ==
    IF amount <= 0 THEN <<0, 0, 0, 0, 0, 0, 0>>
    ELSE
      LET r0 == IntOf(amount)
          hundreds_amount == IF r0 >= 100 THEN (((7 * r0) \div 10) \div 100) * 100 ELSE 0
          r1 == r0 - hundreds_amount
          fifties == IF r1 >= 50 THEN draw ELSE 0
          r2 == r1 - fifties * 50
          twenties == IF r2 >= 20 THEN r2 \div 20 ELSE 0
          r3 == r2 - twenties * 20
          tens == IF r3 >= 10 THEN r3 \div 10 ELSE 0
          r4 == r3 - tens * 10
          fives == IF r4 >= 5 THEN r4 \div 5 ELSE 0
          r5 == r4 - fives * 5
          ones == IF r5 > 0 THEN r5 ELSE 0
      IN <<hundreds_amount \div 100, fifties, twenties, tens, fives, ones, 0>>

\* FiftyDraws with one more $50 bill than the remainder holds
FiftyDrawsOneMore(amount) ==
    IF amount <= 0 THEN {0}
    ELSE LET r0 == IntOf(amount)
             r1 == r0 - (IF r0 >= 100 THEN (((7 * r0) \div 10) \div 100) * 100 ELSE 0)
         IN 0..((r1 \div 50) + 1)

\* the values random.randint(0, remaining // 50) can return for an amount
FiftyDraws(amount) ==
    IF amount <= 0 THEN {0}
    ELSE LET r0 == IntOf(amount)
             r1 == r0 - (IF r0 >= 100 THEN (((7 * r0) \div 10) \div 100) * 100 ELSE 0)
         IN 0..(r1 \div 50)

\* validate_intent that takes TRANSFER for an operation not yet implemented
validate_intent_without_transfer(intent) ==
    LET op == intent.operation IN
    CASE op = "BALANCE_INQUIRY" ->
           IF ~Truthy(intent.account_id) /\ intent.account_type = ""
           THEN <<"account_id or account_type is required">> ELSE <<>>
      [] op = "WITHDRAW" ->
           (IF ~Truthy(intent.account_id) THEN <<"account_id is required">> ELSE <<>>)
           \o (IF intent.amount \in {None, Some(0)} THEN <<"amount is required">> ELSE <<>>)
      [] op \in {"CASH_DEPOSIT", "CHECK_DEPOSIT"} ->
           IF ~Truthy(intent.account_id) THEN <<"account_id is required">> ELSE <<>>
      [] op = "CHANGE_PIN" ->
           IF ~Truthy(intent.account_id)
           THEN <<"account_id (or card id) is required">> ELSE <<>>
      [] op \in {"DEPOSIT", "PAYMENT", "TRANSFER"} -> <<"operation not yet implemented">>
      [] OTHER -> <<"unknown operation">>

validate_intent(intent) ==
    LET op == intent.operation IN
    CASE op = "BALANCE_INQUIRY" ->
           IF ~Truthy(intent.account_id) /\ intent.account_type = ""
           THEN <<"account_id or account_type is required">> ELSE <<>>
      [] op = "WITHDRAW" ->
           (IF ~Truthy(intent.account_id) THEN <<"account_id is required">> ELSE <<>>)
           \o (IF intent.amount \in {None, Some(0)} THEN <<"amount is required">> ELSE <<>>)
      [] op = "CASH_DEPOSIT" ->
           IF ~Truthy(intent.account_id) THEN <<"account_id is required">> ELSE <<>>
      [] op = "CHECK_DEPOSIT" ->
           IF ~Truthy(intent.account_id) THEN <<"account_id is required">> ELSE <<>>
      [] op = "TRANSFER" -> <<>>
      [] op = "CHANGE_PIN" ->
           IF ~Truthy(intent.account_id)
           THEN <<"account_id (or card id) is required">> ELSE <<>>
      [] op \in {"DEPOSIT", "PAYMENT"} -> <<"operation not yet implemented">>
      [] OTHER -> <<"unknown operation">>

\* the accounts of a list that have the given canonical type
AccountsOfType(accounts, t) == SelectSeq(accounts, LAMBDA a : a.type = t)

\* the accounts of a list other than the one with the given id
AccountsExcept(accounts, id) == SelectSeq(accounts, LAMBDA a : a.id # id)

\* the options of a clarification, one per candidate, in list order
OptionsOf(candidates) == [i \in DOMAIN candidates |-> candidates[i].id]

\* next((a for a in accounts if a["id"] == id), None) finds an account
HasAccount(accounts, id) == \E i \in DOMAIN accounts : accounts[i].id = id

pick_account_id_for_type(canonical_type, accounts) ==
    IF canonical_type = "" THEN None
    ELSE LET matches == AccountsOfType(accounts, canonical_type)
         IN IF Len(matches) = 1 THEN Some(matches[1].id) ELSE None

\* the words a raw message is made of
Vocabulary == {"cash", "bills", "coins", "check", "cheque", "paycheck", "checking", "savings"}

\* the keyword lists of the post-correction
CashKeywords == {"cash", "bills", "coins", "dollar bills"}
CheckKeywords == {"check", "cheque", "paycheck"}

\* keyword in message_lower, for a message holding the word w: the keyword
\* occurs in the text as a substring
Occurs(keyword, w) ==
    \/ keyword = w
    \/ keyword = "check" /\ w \in {"checking", "paycheck"}

\* any(keyword in message_lower for keyword in keywords)
Mentions(text, keywords) == \E w \in text, keyword \in keywords : Occurs(keyword, w)

\* the outcome of the two keyword tests on a raw message
KeywordsIn(text) ==
    [cash |-> Mentions(text, CashKeywords), check |-> Mentions(text, CheckKeywords)]

\* CorrectOperation that stops after the first rule that applies
CorrectOperationOnce(op, kw) ==
    IF op = "DEPOSIT" /\ kw.cash THEN "CASH_DEPOSIT"
    ELSE IF op \in {"CASH_DEPOSIT", "DEPOSIT"} /\ kw.check THEN "CHECK_DEPOSIT"
    ELSE op

\* the post-correction of extract_transaction_intent on the operation the
\* generator returned, from the keywords of the raw message
CorrectOperation(op, kw) ==
    LET op1 == IF op = "DEPOSIT" /\ kw.cash THEN "CASH_DEPOSIT" ELSE op
        op2 == IF op1 = "CASH_DEPOSIT" /\ kw.check THEN "CHECK_DEPOSIT" ELSE op1
        op3 == IF op2 = "DEPOSIT" /\ kw.check THEN "CHECK_DEPOSIT" ELSE op2
    IN op3

\* extract_transaction_intent on a message with keywords kw, llm being what
\* get_intent_from_llm returns for it
extract_transaction_intent(kw, llm) ==
    IF llm = None THEN None
    ELSE Some([llm[1] EXCEPT !.operation = CorrectOperation(llm[1].operation, kw)])

\* ------------------------------------------------- C) intent handling
\* every handler returns the result of the call and the intent as the
\* handler leaves it (the intent is one mutable object, also held by the
\* session context)
Outcome(r, i) == [result |-> r, intent |-> i]

\* the candidates of a missing-account question: the accounts of the stated
\* account_type, all accounts when none is stated
TypeCandidates(intent, accounts) ==
    IF intent.account_type # "" THEN AccountsOfType(accounts, intent.account_type)
    ELSE accounts

HandleBalanceInquiry(intent, accounts) ==
    LET acct_id == intent.account_id
        auto == ~Truthy(acct_id) /\ Len(accounts) = 1
        intent1 == IF auto THEN [intent EXCEPT !.account_id = Some(accounts[1].id)]
                   ELSE intent
        acct_id1 == intent1.account_id
    IN IF ~Truthy(acct_id) /\ ~auto
       THEN Outcome(Clarification("True",
                        "Which account would you like to check the balance for?",
                        OptionsOf(accounts), <<"account_id is required">>), intent)
       ELSE IF HasAccount(accounts, acct_id1[1])
            THEN Outcome(Finalized(intent1,
                     <<[Step("account_info") EXCEPT !.account_id = acct_id1]>>), intent1)
            ELSE Outcome(ErrorResult("ACCOUNT_NOT_FOUND"), intent1)

\* the account selection shared by WITHDRAW and CASH_DEPOSIT: the intent
\* with a single candidate filled in, or the result that ends the call
ResolveSingleAccount(intent, accounts, q) ==
    LET candidates == TypeCandidates(intent, accounts) IN
    IF Truthy(intent.account_id) THEN [done |-> FALSE, out |-> Outcome(NoResult, intent)]
    ELSE IF Len(candidates) = 1
         THEN [done |-> FALSE,
               out |-> Outcome(NoResult, [intent EXCEPT !.account_id = Some(candidates[1].id)])]
         ELSE IF Len(candidates) > 1
              THEN [done |-> TRUE,
                    out |-> Outcome(Clarification("True", q, OptionsOf(candidates),
                                                  <<"account_id is required">>), intent)]
              ELSE [done |-> TRUE,
                    out |-> Outcome(ErrorResult("NO_MATCHING_ACCOUNTS"), intent)]

HandleWithdraw(intent, accounts) ==
    LET sel == ResolveSingleAccount(intent, accounts,
                                    "Which account would you like to withdraw from?")
        intent1 == sel.out.intent
        amt == intent.amount
    IN IF sel.done THEN sel.out
       ELSE IF ~Truthy(amt)
            THEN Outcome(Clarification("False", "How much would you like to withdraw?",
                                       <<>>, <<"amount is required">>), intent1)
            ELSE Outcome(Finalized(intent1,
                   <<[Step("account_selection") EXCEPT !.account_id = intent1.account_id],
                     [Step("withdrawal_amount") EXCEPT !.amount = amt],
                     Step("withdrawal_denomination"),
                     Step("withdrawal_confirm")>>), intent1)

\* NoFlowResult that shows the account selection screen
NoFlowResultWithStep(intent) == Finalized(intent, <<Step("account_selection")>>)

\* the result that carries a structured intent and no flow steps
NoFlowResult(intent) == Finalized(intent, <<>>)

\* Simulated that never counts bills
SimulatedNever(amt) == FALSE

\* CASH_DEPOSIT, whether the device's bill count is simulated: an amount
\* is given and is greater than 0
Simulated(amt) == Truthy(amt) /\ amt[1] > 0

HandleCashDeposit(intent, accounts, draw) ==
    LET sel == ResolveSingleAccount(intent, accounts,
                                    "Which account would you like to deposit cash into?")
        intent1 == sel.out.intent
        acct_id == intent1.account_id
        amt == intent.amount
        simulated == Simulated(amt)
    IN IF sel.done THEN sel.out
       ELSE IF Truthy(acct_id)
            THEN Outcome(Finalized(intent1,
                   <<[Step("account_selection") EXCEPT !.account_id = acct_id],
                     [Step("deposit_type_selection") EXCEPT !.account_id = acct_id],
                     [Step("cash_deposit_screen") EXCEPT !.account_id = acct_id,
                         !.has_denominations = simulated,
                         !.denominations = IF simulated
                                           THEN simulate_bill_breakdown(amt[1], draw)
                                           ELSE <<>>],
                     [Step("cash_deposit_review") EXCEPT !.account_id = acct_id],
                     [Step("cash_deposit_confirmation") EXCEPT !.account_id = acct_id]>>),
                   intent1)
            ELSE Outcome(NoFlowResult(intent1), intent1)

\* CheckIndex that counts the checks from 0
CheckIndexFromZero(collected_checks) == Len(collected_checks)

\* CHECK_DEPOSIT, the number of the check whose amount is asked next
CheckIndex(collected_checks) == Len(collected_checks) + 1

HandleCheckDeposit(intent, accounts) ==
    LET acct_id == intent.account_id
        candidates == TypeCandidates(intent, accounts)
        state == intent.check_collection_state
        num_checks == state.num_checks
        collected_checks == state.checks
    IN IF ~Truthy(acct_id)
       THEN IF Len(candidates) > 0
            THEN Outcome(Clarification("True",
                           "Which account would you like to deposit the check into?",
                           OptionsOf(candidates), <<"account_id is required">>), intent)
            ELSE Outcome(ErrorResult("NO_MATCHING_ACCOUNTS"), intent)
       ELSE IF ~Truthy(num_checks)
            THEN Outcome(Clarification("True", "How many checks would you like to deposit?",
                                       <<>>, <<"number_of_checks">>), intent)
            ELSE IF Len(collected_checks) < num_checks[1]
                 THEN Outcome([Clarification("True", "What is the amount of check #?",
                                             <<>>, <<"check_amount">>)
                                 EXCEPT !.ask_index = CheckIndex(collected_checks)], intent)
                 ELSE Outcome(Finalized(intent,
                        <<[Step("deposit_type_selection") EXCEPT !.account_id = acct_id],
                          [Step("check_deposit_screen") EXCEPT !.account_id = acct_id,
                                                               !.checks = collected_checks],
                          Step("check_deposit_review"),
                          Step("check_deposit_confirmation")>>), intent)

\* TRANSFER, type-based resolution of the source
TransferResolveSource(intent, accounts) ==
    LET src_type == intent.source_account_type
        picked == pick_account_id_for_type(src_type, accounts)
    IN IF ~Truthy(intent.source_account_id) /\ src_type # ""
       THEN [src_id |-> picked,
             intent |-> IF Truthy(picked)
                        THEN [intent EXCEPT !.source_account_id = picked,
                                            !.from_account_id = picked]
                        ELSE intent]
       ELSE [src_id |-> intent.source_account_id, intent |-> intent]

\* TRANSFER, type-based resolution of the destination, the source excluded
TransferResolveDestination(intent, dst_id0, src_id, accounts) ==
    LET dst_type == intent.destination_account_type
        dst_candidates == IF Truthy(src_id) THEN AccountsExcept(accounts, src_id[1])
                          ELSE accounts
        picked == pick_account_id_for_type(dst_type, dst_candidates)
    IN IF ~Truthy(dst_id0) /\ dst_type # ""
       THEN [dst_id |-> picked,
             intent |-> IF Truthy(picked)
                        THEN [intent EXCEPT !.destination_account_id = picked,
                                            !.to_account_id = picked]
                        ELSE intent]
       ELSE [dst_id |-> dst_id0, intent |-> intent]

\* TRANSFER, the candidates of the source question
TransferSourceCandidates(intent, accounts) ==
    LET typed == AccountsOfType(accounts, intent.source_account_type)
    IN IF intent.source_account_type # "" /\ typed # <<>> THEN typed ELSE accounts

\* TRANSFER, the candidates of the destination question
TransferDestinationCandidates(intent, src_id, accounts) ==
    LET candidates == IF src_id = None THEN accounts
                      ELSE AccountsExcept(accounts, src_id[1])
        typed == AccountsOfType(candidates, intent.destination_account_type)
    IN IF intent.destination_account_type # "" /\ candidates # <<>> /\ typed # <<>>
       THEN typed ELSE candidates

\* TRANSFER, whether the destination question is asked
TransferNeedsDestination(intent, dst_id) == ~Truthy(dst_id) /\ ~intent.is_external

HandleTransfer(intent, accounts) ==
    LET amt == intent.amount
        rs == TransferResolveSource(intent, accounts)
        rd == TransferResolveDestination(rs.intent, intent.destination_account_id,
                                         rs.src_id, accounts)
        dst_id == rd.dst_id
        single == ~Truthy(rs.src_id) /\ Len(accounts) = 1
        src_id == IF single THEN Some(accounts[1].id) ELSE rs.src_id
        intent2 == IF single
                   THEN [rd.intent EXCEPT !.source_account_id = src_id,
                                          !.from_account_id = src_id]
                   ELSE rd.intent
        destination_options == OptionsOf(TransferDestinationCandidates(intent2, src_id, accounts))
    IN IF ~Truthy(rs.src_id) /\ ~single
       THEN Outcome(Clarification("True", "Which account would you like to transfer from?",
                       OptionsOf(TransferSourceCandidates(intent2, accounts)),
                       <<"from_account_id is required">>), intent2)
       ELSE IF TransferNeedsDestination(intent2, dst_id)
            THEN IF destination_options # <<>>
                 THEN Outcome(Clarification("True",
                                "Which account would you like to transfer to?",
                                destination_options, <<"to_account_id is required">>),
                              intent2)
                 ELSE Outcome(Clarification("False",
                                "You only have one account. Cannot transfer to the same account.",
                                <<>>, <<"to_account_id is required">>), intent2)
            ELSE IF ~Truthy(amt)
                 THEN Outcome(Clarification("False", "How much would you like to transfer?",
                                            <<>>, <<"amount is required">>), intent2)
                 ELSE Outcome(Finalized(intent2,
                        <<[Step("transfer_to_account") EXCEPT !.account_id = dst_id,
                              !.is_external = intent2.is_external],
                          [Step("transfer_from_account") EXCEPT !.account_id = src_id],
                          [Step("transfer_amount") EXCEPT !.amount = amt],
                          Step("transfer_review"),
                          Step("transfer_confirmation")>>), intent2)

\* C2, no validation errors: the handler of the operation
Dispatch(intent, accounts, draw) ==
    LET op == intent.operation IN
    CASE op = "BALANCE_INQUIRY" -> HandleBalanceInquiry(intent, accounts)
      [] op = "WITHDRAW" -> HandleWithdraw(intent, accounts)
      [] op = "CASH_DEPOSIT" -> HandleCashDeposit(intent, accounts, draw)
      [] op = "CHECK_DEPOSIT" -> HandleCheckDeposit(intent, accounts)
      [] op = "TRANSFER" -> HandleTransfer(intent, accounts)
      [] OTHER -> Outcome(NoFlowResult(intent), intent)

\* MissingAccountClarification that fills in a single candidate and goes on
MissingAccountAutoSelect(intent, accounts, errors) ==
    LET candidates == TypeCandidates(intent, accounts) IN
    IF Len(candidates) = 1
    THEN Dispatch([intent EXCEPT !.account_id = Some(candidates[1].id)], accounts, 0)
    ELSE Outcome(Clarification("True", "Which account should I use?",
                               OptionsOf(candidates), errors), intent)

\* C1, errors name a missing account: clarification with the candidates
MissingAccountClarification(intent, accounts, errors) ==
    LET candidates == TypeCandidates(intent, accounts) IN
    IF candidates # <<>>
    THEN Outcome(Clarification("True", "Which one should I use?",
                               OptionsOf(candidates), errors), intent)
    ELSE Outcome(Clarification("True", "Which account should I use?", <<>>, errors),
                 intent)

\* C1, generic clarification: the question of the first field_map key found
\* in an error, in the order of the errors
GenericQuestion(errors) ==
    LET err == errors[1] IN
    CASE err = "account_id (or card id) is required" -> "Which account should I use?"
      [] err = "amount is required" -> "How much should I process?"
      [] OTHER -> "Missing required information"

\* ValidationFailure that hands the intent to its handler all the same
ValidationFailureIgnored(intent, accounts, errors) ==
    Dispatch(intent, accounts, 0)

ValidationFailure(intent, accounts, errors) ==
    IF \E k \in DOMAIN errors :
          errors[k] \in {"account_id is required", "account_id or account_type is required"}
    THEN MissingAccountClarification(intent, accounts, errors)
    ELSE Outcome(Clarification("False", GenericQuestion(errors), <<>>, errors), intent)

\* C) validation, then clarification or finalization
HandleIntent(intent, accounts, draw) ==
    LET errors == validate_intent(intent) IN
    IF errors # <<>> THEN ValidationFailure(intent, accounts, errors)
    ELSE Dispatch(intent, accounts, draw)

\* Fallback that answers whether or not the request returned a response
FallbackAlwaysAnswers(available) ==
    [NoResult EXCEPT !.success = TRUE, !.error = "None", !.has_message = TRUE]

\* D) open-ended generation; available is whether retry_ollama_request
\* returned a response
Fallback(available) ==
    IF available
    THEN [NoResult EXCEPT !.success = TRUE, !.error = "None", !.has_message = TRUE]
    ELSE ErrorResult("LLM_UNAVAILABLE")

\* ------------------------------------------------- A) follow-up responses
\* A1, the patch of a structured account selection into the pending intent
\* PatchSelection that fills the destination of a TRANSFER first
PatchSelectionDestinationFirst(last_intent, selected_id) ==
    IF last_intent.operation = "TRANSFER"
    THEN IF ~Truthy(last_intent.to_account_id)
            /\ ~Truthy(last_intent.destination_account_id)
         THEN [last_intent EXCEPT !.to_account_id = Some(selected_id),
                                  !.destination_account_id = Some(selected_id)]
         ELSE [last_intent EXCEPT !.from_account_id = Some(selected_id),
                                  !.source_account_id = Some(selected_id)]
    ELSE [last_intent EXCEPT !.account_id = Some(selected_id)]

PatchSelection(last_intent, selected_id) ==
    IF last_intent.operation = "TRANSFER"
    THEN IF ~Truthy(last_intent.from_account_id) /\ ~Truthy(last_intent.source_account_id)
         THEN [last_intent EXCEPT !.from_account_id = Some(selected_id),
                                  !.source_account_id = Some(selected_id)]
         ELSE IF ~Truthy(last_intent.to_account_id)
                 /\ ~Truthy(last_intent.destination_account_id)
              THEN [last_intent EXCEPT !.to_account_id = Some(selected_id),
                                       !.destination_account_id = Some(selected_id)]
              ELSE [last_intent EXCEPT !.from_account_id = Some(selected_id),
                                       !.source_account_id = Some(selected_id)]
    ELSE [last_intent EXCEPT !.account_id = Some(selected_id)]

\* LastUserTurn that takes the most recent turn, whoever sent it
LastTurnOfAnySender(history) ==
    IF history = <<>> THEN None ELSE Some(history[Len(history)].kw)

\* the content of the most recent USER turn of the history, if any
LastUserTurn(history) ==
    LET idx == {i \in DOMAIN history : history[i].sender = "USER"}
    IN IF idx = {} THEN None
       ELSE Some(history[CHOOSE i \in idx : \A j \in idx : j <= i].kw)

\* CollectingNumChecks that asks for the count again while no check is collected
CollectingNumChecksUntilFirstCheck(state) == state.checks = <<>>

\* A2, whether the check count is still to be collected
CollectingNumChecks(state) == ~Truthy(state.num_checks)

\* CollectingAmounts with the comparison off by one
CollectingAmountsOffByOne(state) == Len(state.checks) <= state.num_checks[1]

\* A2, whether a check amount is still to be collected
CollectingAmounts(state) == Len(state.checks) < state.num_checks[1]

\* A2, a check from an amount; the check number, date and payer the code
\* generates for it are not modelled
NewCheck(numeric_value) == [amount |-> numeric_value]

\* AddCheck with the new check put in front
AddCheckInFront(checks, new_check) == <<new_check>> \o checks

\* A2, the collected checks with a new check
AddCheck(checks, new_check) == Append(checks, new_check)

\* float(message) of a numeric message
NumericValue(msg) ==
    CASE msg.kind = "inf" -> InfAmt
      [] msg.kind = "nan" -> NaNAmt
      [] OTHER -> msg.val

\* InvalidFormat that reports an invalid amount
InvalidFormatAsAmount(state) == ErrorResult("INVALID_AMOUNT")

\* A2, the reply to a message float() cannot parse, or int() cannot convert
InvalidFormat(state) ==
    IF CollectingNumChecks(state) THEN ErrorResult("INVALID_FORMAT")
    ELSE [ErrorResult("INVALID_FORMAT") EXCEPT !.ask_index = Len(state.checks) + 1]

\* A2 on a pending CHECK_DEPOSIT: done when the call returns (or raises)
\* inside A2, otherwise the intent that goes on to C
CheckDepositReply(last_intent, msg) ==
    LET state == last_intent.check_collection_state
        numeric_value == NumericValue(msg)
        stop(r) == [done |-> TRUE, result |-> r, intent |-> last_intent]
        go(i) == [done |-> FALSE, result |-> NoResult, intent |-> i]
    IN IF msg.kind = "text" THEN stop(InvalidFormat(state))
       ELSE IF CollectingNumChecks(state)
            THEN CASE msg.kind = "nan" -> stop(InvalidFormat(state))
                   [] msg.kind = "inf" -> stop(Raised("OverflowError"))
                   [] OTHER ->
                        LET num_checks == IntOf(numeric_value) IN
                        IF num_checks <= 0 \/ num_checks > MaxNumChecks
                        THEN stop(ErrorResult("INVALID_NUMBER"))
                        ELSE go([last_intent EXCEPT !.check_collection_state =
                                   [num_checks |-> Some(num_checks), checks |-> <<>>]])
            ELSE IF CollectingAmounts(state)
                 THEN IF LeqZero(numeric_value)
                      THEN stop(ErrorResult("INVALID_AMOUNT"))
                      ELSE go([last_intent EXCEPT !.check_collection_state.checks =
                                 AddCheck(@, NewCheck(numeric_value))])
                 ELSE go(last_intent)

\* ------------------------------------------------------------------ state
VARIABLES
    topic,                 \* what the conversation is about: the operations
                           \* the generator reads out of its messages
    accounts,              \* the account snapshot of the customer
    session_context,       \* present: the key pending_intent exists;
                           \* pending_intent: its value (None or an intent)
    conversation_history,  \* the conversation log from its last USER turn on
    message,               \* the message of the last call, as observed
    result,                \* what the last call returned
    path,                  \* the way the last call took through the code
    scenario,              \* the amounts entered one after the other since
                           \* the check count was set (observer of the inputs)
    args,                  \* the arguments of a helper called on its own
    returned,              \* what that helper returned (None: not yet)
    settings,              \* the retry policy of the generation client
    client,                \* the position of retry_ollama_request
    clock,                 \* the time, in seconds
    trace,                 \* the requests, errors and delays of the call
    stage,                 \* the part of process_conversation that uses
                           \* the generation client
    calls,                 \* the process_conversation calls of the
                           \* conversations served at the same time
    contexts,              \* the context values the host handed to them
    host,                  \* how the host dispatches the calls, and the
                           \* contexts as it first handed them over
    sessions,              \* the rows of the host's sessions table
    request,               \* the last request to authenticate_pin
    response               \* what authenticate_pin answered to it

conversationVars ==
    <<topic, accounts, session_context, conversation_history, message, result, path, scenario>>
helperVars == <<args, returned>>
clientVars == <<settings, client, clock, trace, stage>>
concurrentVars == <<calls, contexts, host>>
authVars == <<sessions, request, response>>
vars == <<conversationVars, helperVars, clientVars, concurrentVars, authVars>>

\* the configured retry policy
DefaultSettings == [ollama_retry_attempts |-> 3, ollama_retry_backoff_seconds |-> 1]

\* no helper is called on its own
NoHelperCall == args = None /\ returned = None

\* no conversations are served at the same time
NoConcurrentCalls ==
    /\ calls = <<>>
    /\ contexts = <<>>
    /\ host = [policy |-> "none", given |-> <<>>]

\* the response of authenticate_pin with none of the optional fields;
\* error "" is None
NoResponse ==
    [success |-> FALSE, has_session_id |-> FALSE, has_jwt_token |-> FALSE,
     remaining_attempts |-> 0, error |-> ""]

\* nobody authenticates
NoAuthentication ==
    /\ sessions = <<>>
    /\ request = [card_number |-> "", pin |-> ""]
    /\ response = NoResponse

\* the generation client is not followed request by request
IdleClient == [pc |-> "idle", attempt |-> 0, requests |-> 0, failures |-> 0,
               wait_time |-> 0, response |-> "none"]
ClientNotFollowed ==
    /\ settings = DefaultSettings
    /\ client = IdleClient
    /\ clock = 0
    /\ trace = <<>>
    /\ stage = "none"

\* what is recorded of a message: its kind and keywords, the id of a
\* selection, whether a number is positive
Observed(msg) ==
    [kind |-> msg.kind, kw |-> msg.kw,
     id |-> IF msg.kind = "select" THEN msg.val ELSE 0,
     positive |-> (msg.kind = "number" /\ msg.val > 0) \/ msg.kind = "inf"]

NoMessage == [kind |-> "none", kw |-> NoKeywords, id |-> 0, positive |-> FALSE]

\* the way of a call: the branch of A/B it entered, whether it called
\* extract_transaction_intent, whether it reached C (validation and
\* handling), whether it reached D (the open-ended fallback), whether
\* the intent that entered C carried an account id, and whether the request
\* of D returned a response
Path(b, e, c, d) ==
    [branch |-> b, extracted |-> e, handled |-> c, fallback |-> d,
     account_given |-> FALSE, answered |-> FALSE]
NoPath == Path("none", FALSE, FALSE, FALSE)

Init ==
    /\ topic \in Topics
    /\ accounts \in AccountSnapshots
    /\ session_context = [present |-> FALSE, pending_intent |-> None]
    /\ conversation_history = <<>>
    /\ message = NoMessage
    /\ result = NoResult
    /\ path = NoPath
    /\ scenario = [tracking |-> FALSE, amounts |-> <<>>]
    /\ NoHelperCall
    /\ ClientNotFollowed
    /\ NoConcurrentCalls
    /\ NoAuthentication

\* the host's log after a turn: the USER turn, then the ASSISTANT turn when
\* the result carries a message.  Turns older than the last USER turn are
\* never read by process_conversation and are not kept.
LogTurn(msg, r) ==
    LET withUser == <<[sender |-> "USER", kw |-> msg.kw]>>
    IN IF r.has_message
       THEN Append(withUser, [sender |-> "ASSISTANT", kw |-> NoKeywords])
       ELSE withUser

PendingIntent == session_context.pending_intent
\* HasPending that never finds the pending intent
HasPendingNever == FALSE
HasPending == PendingIntent # None
NumChecksOf(ctx) ==
    IF ctx.pending_intent = None THEN None
    ELSE ctx.pending_intent[1].check_collection_state.num_checks

PositiveNumeric(msg) == (msg.kind = "number" /\ msg.val > 0) \/ msg.kind = "inf"

\* the observer: restarted when a call sets the check count, extended by a
\* positive numeric message that follows directly, stopped by anything else
ScenarioNext(ctx1, msg) ==
    IF ~Truthy(NumChecksOf(session_context)) /\ Truthy(NumChecksOf(ctx1))
    THEN [tracking |-> TRUE, amounts |-> <<>>]
    ELSE IF scenario.tracking /\ PositiveNumeric(msg)
              /\ Len(scenario.amounts) < NumChecksOf(session_context)[1]
         THEN [tracking |-> TRUE, amounts |-> Append(scenario.amounts, NumericValue(msg))]
         ELSE [tracking |-> FALSE, amounts |-> <<>>]

\* the random draws a call on this intent can make
DrawsFor(intent) ==
    IF intent.operation = "CASH_DEPOSIT" /\ Truthy(intent.amount)
    THEN FiftyDraws(intent.amount[1]) ELSE {0}

\* the end of a call: the context as the call leaves it, the result, the log
Return(msg, ctx1, r, p) ==
    /\ session_context' = ctx1
    /\ result' = r
    /\ path' = p
    /\ message' = Observed(msg)
    /\ conversation_history' = LogTurn(msg, r)
    /\ scenario' = ScenarioNext(ctx1, msg)
    /\ UNCHANGED <<topic, accounts>>
    /\ UNCHANGED <<helperVars, clientVars, concurrentVars, authVars>>

\* C) on an intent held by the context: the handler mutates the stored object
HandleStored(msg, intent, branch, extracted) ==
    \E draw \in DrawsFor(intent) :
        LET out == HandleIntent(intent, accounts, draw)
        IN Return(msg, [present |-> TRUE, pending_intent |-> Some(out.intent)], out.result,
                  [Path(branch, extracted, TRUE, FALSE)
                       EXCEPT !.account_given = Truthy(intent.account_id)])

\* A1 with a pending intent: patch, store, validate
FollowUpSelection(msg) ==
    /\ msg.kind = "select"
    /\ HasPending
    /\ HandleStored(msg, PatchSelection(PendingIntent[1], msg.val), "A1", FALSE)

\* A1 without a pending intent: re-extract the last USER turn
FollowUpReextract(msg, llm) ==
    /\ msg.kind = "select"
    /\ ~HasPending
    /\ LET last_user_msg == LastUserTurn(conversation_history)
           last_intent == IF last_user_msg = None THEN None
                          ELSE extract_transaction_intent(last_user_msg[1], llm)
       IN IF last_intent = None
          THEN Return(msg, session_context, ErrorResult("NO_PREVIOUS_INTENT"),
                      Path("A1", last_user_msg # None, FALSE, FALSE))
          ELSE HandleStored(msg, PatchSelection(last_intent[1], msg.val), "A1", TRUE)

\* A2: a reply while a CHECK_DEPOSIT is pending
CheckDepositFollowUp(msg) ==
    /\ msg.kind # "select"
    /\ HasPending
    /\ PendingIntent[1].operation = "CHECK_DEPOSIT"
    /\ LET a2 == CheckDepositReply(PendingIntent[1], msg)
       IN IF a2.done
          THEN Return(msg, session_context, a2.result, Path("A2", FALSE, FALSE, FALSE))
          ELSE HandleStored(msg, a2.intent, "A2", FALSE)

\* A2 entry condition on a context whose pending_intent is None
PendingNoneLookup(msg) ==
    /\ msg.kind # "select"
    /\ session_context.present
    /\ ~HasPending
    /\ Return(msg, session_context, Raised("AttributeError"),
              Path("A2", FALSE, FALSE, FALSE))

\* B: fresh extraction, then C or the fallback D
FirstTurn(msg, llm) ==
    /\ msg.kind # "select"
    /\ \/ ~session_context.present
       \/ HasPending /\ PendingIntent[1].operation # "CHECK_DEPOSIT"
    /\ LET intent == extract_transaction_intent(msg.kw, llm)
       IN IF intent = None
          THEN \E available \in BOOLEAN :
                  Return(msg, [present |-> TRUE, pending_intent |-> None],
                         Fallback(available),
                         [Path("B", TRUE, FALSE, TRUE) EXCEPT !.answered = available])
          ELSE HandleStored(msg, intent[1], "B", TRUE)

Next ==
    \E msg \in Messages :
        \/ FollowUpSelection(msg)
        \/ \E llm \in LLMOutcomes(topic) : FollowUpReextract(msg, llm)
        \/ CheckDepositFollowUp(msg)
        \/ PendingNoneLookup(msg)
        \/ \E llm \in LLMOutcomes(topic) : FirstTurn(msg, llm)

Spec == Init /\ [][Next]_vars

\* ------------------------------------------------------------ properties
\* the pending intent's fields, for a context that holds one
Pending == PendingIntent[1]
PendingIs(op) == HasPending /\ Pending.operation = op
PendingChecks == Pending.check_collection_state.checks
PendingNumChecks == Pending.check_collection_state.num_checks

\* the result is a finalized flow whose k-th step is the step named
HasStep(r, k, name) ==
    r.success /\ r.has_flow_steps /\ Len(r.flow_steps) >= k /\ r.flow_steps[k].step = name

AmountsOf(checks) == [k \in DOMAIN checks |-> checks[k].amount]

\* a check deposit whose checks are all collected and whose flow was returned
CheckDepositCompleted ==
    /\ PendingIs("CHECK_DEPOSIT")
    /\ Truthy(PendingNumChecks)
    /\ Len(PendingChecks) = PendingNumChecks[1]
    /\ HasStep(result, 2, "check_deposit_screen")

\* C1: with a resolved account, when the count N was set and N positive
\* numeric messages a1..aN followed one after the other, the call of aN
\* returns the finalized flow whose check_deposit_screen step carries exactly
\* N checks with the amounts a1..aN in that order.
C1_ChecksInEntryOrder ==
    (/\ PendingIs("CHECK_DEPOSIT")
     /\ Truthy(Pending.account_id)
     /\ scenario.tracking
     /\ Len(scenario.amounts) = PendingNumChecks[1])
    => (/\ HasStep(result, 2, "check_deposit_screen")
        /\ Len(result.flow_steps[2].checks) = PendingNumChecks[1]
        /\ AmountsOf(result.flow_steps[2].checks) = scenario.amounts)

C1_Witness ==
    /\ PendingIs("CHECK_DEPOSIT")
    /\ Truthy(Pending.account_id)
    /\ scenario.tracking
    /\ Len(scenario.amounts) = 2
    /\ PendingNumChecks = Some(2)
    /\ scenario.amounts[1] # scenario.amounts[2]
    /\ HasStep(result, 2, "check_deposit_screen")

\* C2: after a check deposit completed, a further numeric message starts a
\* new top-level turn (branch B, fresh extraction) and is not handled by the
\* check-deposit branch A2 again.
C2_NumericAfterCompletionIsFresh ==
    [][(CheckDepositCompleted /\ message'.kind \in {"number", "inf", "nan"})
          => (path'.branch = "B" /\ path'.extracted
              /\ ~HasStep(result', 2, "check_deposit_screen"))]_vars

\* C3: a pending WITHDRAW with a resolved account and no amount is completed
\* by a bare positive number: the call returns the finalized WITHDRAW flow on
\* the account already resolved, without a fresh extraction.
C3_WithdrawAmountReply ==
    [][(/\ PendingIs("WITHDRAW")
        /\ Truthy(Pending.account_id)
        /\ ~Truthy(Pending.amount)
        /\ message'.kind = "number" /\ message'.positive)
          => (/\ HasStep(result', 1, "account_selection")
              /\ HasStep(result', 4, "withdrawal_confirm")
              /\ result'.flow_steps[1].account_id = Pending.account_id
              /\ ~path'.extracted)]_vars

\* C4: no finalized TRANSFER has identical source and destination ids.
C4_TransferDistinctAccounts ==
    HasStep(result, 1, "transfer_to_account")
        => result.flow_steps[1].account_id # result.flow_steps[2].account_id

\* the operations whose account is the slot account_id, CHECK_DEPOSIT aside
SingleAccountOperations == {"BALANCE_INQUIRY", "WITHDRAW", "CASH_DEPOSIT", "CHANGE_PIN"}

\* C5: for an operation other than CHECK_DEPOSIT, an intent without an
\* account id is not left unresolved, and no account question is returned,
\* when exactly one account matches its stated type (or there is exactly one
\* account and no type is stated).
C5_SingleCandidateAutoResolves ==
    (/\ HasPending
     /\ Pending.operation \in SingleAccountOperations
     /\ path.handled
     /\ Len(TypeCandidates(Pending, accounts)) = 1)
    => (Truthy(Pending.account_id) /\ result.options = <<>>)

\* a CHECK_DEPOSIT is pending and its account is not set
CheckDepositWithoutAccount ==
    PendingIs("CHECK_DEPOSIT") /\ ~Truthy(Pending.account_id)

\* C6: a CHECK_DEPOSIT without an account id is never auto-resolved: with at
\* least one candidate (also exactly one) the call that handles it returns a
\* clarification listing the candidates, and the account id stays as it is
\* through every message that is not a structured account selection.
C6_CheckDepositAlwaysAsks ==
    /\ []((PendingIs("CHECK_DEPOSIT") /\ path.handled /\ ~path.account_given
              /\ TypeCandidates(Pending, accounts) # <<>>)
            => (/\ ~Truthy(Pending.account_id)
                /\ ~result.success
                /\ result.clarification_needed = "True"
                /\ result.options = OptionsOf(TypeCandidates(Pending, accounts))))
    /\ [][(CheckDepositWithoutAccount /\ message'.kind # "select")
            => (/\ session_context'.pending_intent # None
                /\ session_context'.pending_intent[1].operation = "CHECK_DEPOSIT"
                /\ session_context'.pending_intent[1].account_id = Pending.account_id)]_vars

C6_Witness ==
    /\ CheckDepositWithoutAccount
    /\ path.handled
    /\ ~path.account_given
    /\ Len(accounts) = 1
    /\ result.clarification_needed = "True"
    /\ result.options = <<1>>

\* C7: when the account is missing and no account of the snapshot has the
\* stated account type, the result is the terminal NO_MATCHING_ACCOUNTS
\* error without clarification_needed, not a clarification with no options.
C7_NoCandidateIsTerminal ==
    (/\ HasPending
     /\ Pending.operation \in SingleAccountOperations \cup {"CHECK_DEPOSIT"}
     /\ path.handled
     /\ ~Truthy(Pending.account_id)
     /\ Pending.account_type # ""
     /\ TypeCandidates(Pending, accounts) = <<>>)
    => (/\ result.error = "NO_MATCHING_ACCOUNTS"
        /\ result.clarification_needed = "absent")

\* C8: while the check count of a CHECK_DEPOSIT is set, the number of
\* collected checks is at most the count.
C8_CollectedAtMostNumChecks ==
    (PendingIs("CHECK_DEPOSIT") /\ Truthy(PendingNumChecks))
        => Len(PendingChecks) <= PendingNumChecks[1]

\* all checks are collected and one more positive number was processed
C8_Witness ==
    /\ CheckDepositCompleted
    /\ message.positive
    /\ ~scenario.tracking
    /\ path.branch = "A2"
    /\ PendingNumChecks = Some(MaxCount)

\* C9: once the check count of the pending CHECK_DEPOSIT is set, no message
\* changes it.
C9_NumChecksImmutable ==
    [][(PendingIs("CHECK_DEPOSIT") /\ Truthy(PendingNumChecks))
          => (/\ session_context'.pending_intent # None
              /\ session_context'.pending_intent[1].check_collection_state.num_checks
                    = PendingNumChecks)]_vars

\* the count is 2 and the number 1, a valid count other than the one set,
\* was taken as the amount of the first check
C9_Witness ==
    /\ PendingIs("CHECK_DEPOSIT")
    /\ PendingNumChecks = Some(2)
    /\ PendingChecks = <<[amount |-> 2]>>
    /\ message.kind = "number"

\* C10: after a result with non-empty flow_steps the context holds no
\* pending intent.
C10_PendingDiscardedOnFlow ==
    (result.has_flow_steps /\ result.flow_steps # <<>>) => ~HasPending

\* ------------------------------------------------ helpers called on their own
\* largest amount, in dollars, handed to simulate_bill_breakdown
MaxDollars == 300

\* no conversation is going on
NoConversation ==
    /\ topic = "ACCOUNT"
    /\ accounts = <<>>
    /\ session_context = [present |-> FALSE, pending_intent |-> None]
    /\ conversation_history = <<>>
    /\ message = NoMessage
    /\ result = NoResult
    /\ path = NoPath
    /\ scenario = [tracking |-> FALSE, amounts |-> <<>>]

\* the intents of the schema with each slot null or filled, and one intent
\* whose operation is outside the schema
SchemaIntents ==
    {[NullIntent(op) EXCEPT !.account_id = a, !.account_type = t, !.amount = m,
         !.source_account_id = src, !.from_account_id = from,
         !.destination_account_id = dst, !.to_account_id = to, !.is_external = ext] :
        op \in Operations \cup {"BOGUS"},
        a \in {None, Some(0), Some(1)}, t \in {"", "CHECKING"},
        m \in {None, Some(0), Some(-20), Some(101)},
        src \in {None, Some(1)}, from \in {None, Some(1)},
        dst \in {None, Some(2)}, to \in {None, Some(2)}, ext \in BOOLEAN}

\* the amounts handed to simulate_bill_breakdown, in half dollars
BreakdownAmounts == (-2)..(2 * MaxDollars + 1)

\* a call of a helper: validate_intent on an intent (ValidationCalls),
\* simulate_bill_breakdown on an amount (BreakdownCalls), or step C of
\* process_conversation on an intent and a snapshot (HandlingCalls)
HelperCall(f, i, accts, amt) ==
    [function |-> f, intent |-> i, accounts |-> accts, amount |-> amt,
     text |-> {}, selected_id |-> 0]

\* the intents handed to the post-correction: every slot null, or a type
\* and an amount stated
CorrectionIntents ==
    {[NullIntent(op) EXCEPT !.account_type = t, !.amount = m] :
        op \in Operations \cup {"BOGUS"},
        t \in {"", "CHECKING"}, m \in {None, Some(101)}}

\* the pending intents a selection is patched into: every operation, each
\* account slot null or filled, with or without an amount
PendingIntents ==
    {i \in SchemaIntents : i.account_type = "" /\ i.amount \in {None, Some(101)}}

\* the ids of a structured selection
SelectedIds == {0, 1, StaleId}

\* the post-correction of extract_transaction_intent on a raw message and
\* the intent the generator returned for it, and the patch of A1 on a
\* pending intent and a selected id
FollowUpCall(f, i, words, n) ==
    [function |-> f, intent |-> i, accounts |-> <<>>, amount |-> 0,
     text |-> words, selected_id |-> n]
CorrectionCalls ==
    {FollowUpCall("extract_transaction_intent", i, words, 0) :
        i \in CorrectionIntents, words \in SUBSET Vocabulary}
PatchCalls ==
    {FollowUpCall("patch_selection", i, {}, n) : i \in PendingIntents, n \in SelectedIds}

ValidationCalls == {HelperCall("validate_intent", i, <<>>, 0) : i \in SchemaIntents}
BreakdownCalls ==
    {HelperCall("simulate_bill_breakdown", NullIntent("CASH_DEPOSIT"), <<>>, amt) :
        amt \in BreakdownAmounts}
HandlingCalls ==
    {HelperCall("process_conversation", i, accts, 0) :
        i \in SchemaIntents, accts \in AccountSnapshots}

\* step C on the TRANSFER intents the generator returns, their source and
\* destination given by id or described by type
TransferCalls ==
    {HelperCall("process_conversation", i, accts, 0) :
        i \in TransferIntents, accts \in AccountSnapshots}

\* the snapshots of customers with up to one account more, accounts 1..n
\* in list order
LargerSnapshots ==
    {s \in UNION {[1..n -> [id : 1..(MaxAcct + 1), type : AccountTypes]] :
                     n \in 0..(MaxAcct + 1)} :
        \A i \in DOMAIN s : s[i].id = i}

\* step C on the intents that name no account: the account described by
\* its type or not at all, with or without an amount
UnresolvedIntents ==
    {[NullIntent(op) EXCEPT !.account_type = t, !.amount = m] :
        op \in {"BALANCE_INQUIRY", "WITHDRAW", "CASH_DEPOSIT", "CHECK_DEPOSIT",
                 "CHANGE_PIN"},
        t \in OptTypes, m \in {None, Some(101)}}
UnresolvedCalls ==
    {HelperCall("process_conversation", i, accts, 0) :
        i \in UnresolvedIntents, accts \in LargerSnapshots}

HelperInit ==
    /\ NoConversation
    /\ ClientNotFollowed
    /\ NoConcurrentCalls
    /\ NoAuthentication
    /\ \/ \E c \in ValidationCalls : args = Some(c)
       \/ \E c \in BreakdownCalls : args = Some(c)
       \/ \E c \in HandlingCalls : args = Some(c)
       \/ \E c \in CorrectionCalls : args = Some(c)
       \/ \E c \in PatchCalls : args = Some(c)
       \/ \E c \in TransferCalls : args = Some(c)
       \/ \E c \in UnresolvedCalls : args = Some(c)
    /\ returned = None

HelperReturn(value) ==
    /\ returned' = Some(value)
    /\ UNCHANGED <<args, conversationVars, clientVars, concurrentVars, authVars>>

CallValidateIntent ==
    /\ returned = None
    /\ args[1].function = "validate_intent"
    /\ HelperReturn(validate_intent(args[1].intent))

CallSimulateBillBreakdown ==
    /\ returned = None
    /\ args[1].function = "simulate_bill_breakdown"
    /\ \E draw \in FiftyDraws(args[1].amount) :
          HelperReturn(simulate_bill_breakdown(args[1].amount, draw))

\* C) validation and handling of an intent, whatever branch produced it
ValidateAndHandle ==
    /\ returned = None
    /\ args[1].function = "process_conversation"
    /\ \E draw \in DrawsFor(args[1].intent) :
          HelperReturn(HandleIntent(args[1].intent, args[1].accounts, draw).result)

\* extract_transaction_intent once get_intent_from_llm has returned the intent
CallExtractTransactionIntent ==
    /\ returned = None
    /\ args[1].function = "extract_transaction_intent"
    /\ HelperReturn(extract_transaction_intent(KeywordsIn(args[1].text),
                                               Some(args[1].intent))[1])

\* A1) the patch of the selected id into the pending intent
CallPatchSelection ==
    /\ returned = None
    /\ args[1].function = "patch_selection"
    /\ HelperReturn(PatchSelection(args[1].intent, args[1].selected_id))

HelperNext ==
    \/ CallValidateIntent
    \/ CallSimulateBillBreakdown
    \/ ValidateAndHandle
    \/ CallExtractTransactionIntent
    \/ CallPatchSelection

HelperSpec == HelperInit /\ [][HelperNext]_vars

\* the call of the helper f has returned
Returned(f) == returned # None /\ args[1].function = f

\* every slot of the intent holds a valid value
FullyPopulated(intent) ==
    /\ intent.account_id = Some(1)
    /\ intent.account_type = "CHECKING"
    /\ intent.amount = Some(101)
    /\ intent.source_account_id = Some(1)
    /\ intent.from_account_id = Some(1)
    /\ intent.destination_account_id = Some(2)
    /\ intent.to_account_id = Some(2)

\* the operations validate_intent knows and does not report as not implemented
ImplementedOperations == Operations \ {"DEPOSIT", "PAYMENT"}

\* C15 as stated: for every operation of the schema, validate_intent returns
\* no error for an intent in which every field holds a valid value.
C15_FullyPopulatedIsValid ==
    (/\ Returned("validate_intent")
     /\ args[1].intent.operation \in Operations
     /\ FullyPopulated(args[1].intent))
    => returned[1] = <<>>

\* C15, amended: for every operation of the schema other than DEPOSIT and
\* PAYMENT, validate_intent returns no error for an intent in which every
\* field holds a valid value; for DEPOSIT and PAYMENT it returns the error
\* "operation not yet implemented".
C15_FullyPopulatedImplementedIsValid ==
    (/\ Returned("validate_intent")
     /\ args[1].intent.operation \in Operations
     /\ FullyPopulated(args[1].intent))
    => IF args[1].intent.operation \in ImplementedOperations
       THEN returned[1] = <<>>
       ELSE returned[1] = <<"operation not yet implemented">>

C15_Witness ==
    /\ Returned("validate_intent")
    /\ args[1].intent.operation = "TRANSFER"
    /\ FullyPopulated(args[1].intent)
    /\ returned[1] = <<>>

\* the source account of a TRANSFER intent is missing
TransferSourceMissing(intent) ==
    ~Truthy(intent.source_account_id) /\ ~Truthy(intent.from_account_id)

\* neither a destination account nor is_external is given
TransferDestinationMissing(intent) ==
    /\ ~Truthy(intent.destination_account_id)
    /\ ~Truthy(intent.to_account_id)
    /\ ~intent.is_external

\* the amount is missing or not greater than 0
AmountNotPositive(intent) == intent.amount = None \/ intent.amount[1] <= 0

\* C16: validate_intent returns at least one error for a TRANSFER intent
\* whose source account id is missing, or whose destination account id is
\* missing while is_external is not set, or whose amount is missing or not
\* greater than 0.
C16_TransferRequiredFields ==
    (/\ Returned("validate_intent")
     /\ args[1].intent.operation = "TRANSFER"
     /\ \/ TransferSourceMissing(args[1].intent)
        \/ TransferDestinationMissing(args[1].intent)
        \/ AmountNotPositive(args[1].intent))
    => returned[1] # <<>>

\* C17: validate_intent returns at least one error for every DEPOSIT or
\* PAYMENT intent, whatever its fields, and for every intent whose operation
\* is outside the schema; validation and handling of such an intent return a
\* non-success result with error MISSING_FIELDS and no flow steps.
C17_UnimplementedNeverFinalized ==
    /\ (Returned("validate_intent")
          /\ args[1].intent.operation \notin ImplementedOperations)
       => returned[1] # <<>>
    /\ (Returned("process_conversation")
          /\ args[1].intent.operation \notin ImplementedOperations)
       => (/\ ~returned[1].success
           /\ returned[1].error = "MISSING_FIELDS"
           /\ ~returned[1].has_flow_steps
           /\ returned[1].flow_steps = <<>>)

C17_Witness ==
    /\ Returned("process_conversation")
    /\ args[1].intent.operation = "PAYMENT"
    /\ FullyPopulated(args[1].intent)
    /\ args[1].accounts # <<>>
    /\ returned[1].error = "MISSING_FIELDS"

\* the dollars of a breakdown <<100s, 50s, 20s, 10s, 5s, 1s, coins>>
BillsTotal(b) == 100 * b[1] + 50 * b[2] + 20 * b[3] + 10 * b[4] + 5 * b[5] + b[6]

\* C19: for every amount A >= 0 and every outcome of the $50 draw,
\* simulate_bill_breakdown(A) returns non-negative bill counts whose dollars
\* add up to floor(A), and coins_amount 0; for A = 0 every field is zero.
C19_BreakdownSumsToFloor ==
    (Returned("simulate_bill_breakdown") /\ args[1].amount >= 0)
    => (/\ \A k \in 1..6 : returned[1][k] >= 0
        /\ BillsTotal(returned[1]) = args[1].amount \div 2
        /\ returned[1][7] = 0
        /\ args[1].amount = 0 => returned[1] = <<0, 0, 0, 0, 0, 0, 0>>)

\* 260.50 dollars counted with a $100 bill and three $50 bills
C19_Witness ==
    /\ Returned("simulate_bill_breakdown")
    /\ args[1].amount = 521
    /\ returned[1][1] = 1
    /\ returned[1][2] = 3

\* C14: no call of a conversation that threads one context raises to its
\* caller; every call returns a result.
C14_NeverRaises == result.raised = ""

\* C18: a finalized WITHDRAW or TRANSFER carries an amount greater than 0,
\* in the intent and in every flow step that shows an amount.
C18_FinalizedAmountPositive ==
    (/\ result.success
     /\ result.flow_steps # <<>>
     /\ PendingIs("WITHDRAW") \/ PendingIs("TRANSFER"))
    => (/\ Pending.amount # None
        /\ Pending.amount[1] > 0
        /\ \A k \in DOMAIN result.flow_steps :
              result.flow_steps[k].amount # None => result.flow_steps[k].amount[1] > 0)

\* C20: a structured account selection on a context that holds a pending
\* intent patches that intent, validates and handles the patched intent and
\* stores it, and sends no request to the generation service: neither the
\* extraction nor the open-ended fallback runs.
C20_SelectionBypassesExtraction ==
    [][(message'.kind = "select" /\ session_context.pending_intent # None)
         => (/\ path'.branch = "A1"
             /\ path'.handled
             /\ ~path'.extracted
             /\ ~path'.fallback
             /\ LET patched == PatchSelection(session_context.pending_intent[1], message'.id)
                IN \E draw \in DrawsFor(patched) :
                      LET out == HandleIntent(patched, accounts, draw)
                      IN /\ session_context'.pending_intent = Some(out.intent)
                         /\ result' = out.result)]_vars

\* the selection of account 2 completed a pending WITHDRAW
C20_Witness ==
    /\ message.kind = "select"
    /\ message.id = 2
    /\ path.branch = "A1"
    /\ ~path.extracted
    /\ PendingIs("WITHDRAW")
    /\ Pending.account_id = Some(2)
    /\ result.success
    /\ result.flow_steps # <<>>

\* ------------------------------------------ the generation client, by request
\* largest configured number of attempts
MaxAttempts == 3
\* largest configured backoff, in seconds
MaxBackoff == 2

\* the retry policies: ollama_retry_attempts, ollama_retry_backoff_seconds
RetryPolicies ==
    [ollama_retry_attempts : 0..MaxAttempts, ollama_retry_backoff_seconds : 1..MaxBackoff]

retry_attempts == settings.ollama_retry_attempts
retry_backoff == settings.ollama_retry_backoff_seconds

\* the seconds a request takes to end, and the seconds asyncio.sleep
\* oversleeps
Latencies == {0, 1}

\* Retryable that gives up one attempt early
RetryableOneLess(attempt) == attempt < retry_attempts - 2
\* after an error: whether another attempt follows
Retryable(attempt) == attempt < retry_attempts - 1

\* WaitTime without the doubling
WaitTimeConstant(backoff, attempt) == backoff
\* the delay after the failed attempt
WaitTime(backoff, attempt) == backoff * (2 ^ attempt)

\* an entry of the trace: a request sent, its end ("ok", "error", "raise")
\* or a delay slept, with the attempt it belongs to and the time it is over
Event(e, attempt, at, wait) ==
    [event |-> e, stage |-> stage, attempt |-> attempt, at |-> at, wait |-> wait]

\* retry_ollama_request entered
StartedClient == [IdleClient EXCEPT !.pc = "loop"]

\* a fresh top-level message enters B: extract_transaction_intent calls
\* get_intent_from_llm, which calls retry_ollama_request
ClientInit ==
    /\ NoConversation
    /\ NoHelperCall
    /\ NoConcurrentCalls
    /\ NoAuthentication
    /\ settings \in RetryPolicies
    /\ client = StartedClient
    /\ clock = 0
    /\ trace = <<>>
    /\ stage = "B"

\* for attempt in range(self.retry_attempts): client.post
IssueRequest ==
    /\ client.pc = "loop"
    /\ client.attempt < retry_attempts
    /\ client' = [client EXCEPT !.pc = "await", !.requests = @ + 1]
    /\ trace' = Append(trace, Event("request", client.attempt, clock, 0))
    /\ UNCHANGED <<conversationVars, helperVars, concurrentVars, authVars, settings, clock, stage>>

\* the loop ends without an attempt left: return None
LoopExhausted ==
    /\ client.pc = "loop"
    /\ client.attempt >= retry_attempts
    /\ client' = [client EXCEPT !.pc = "returned", !.response = "None"]
    /\ UNCHANGED <<conversationVars, helperVars, concurrentVars, authVars, settings, clock, trace, stage>>

\* raise_for_status passes and response.json() is returned
RequestSucceeds(latency) ==
    /\ client.pc = "await"
    /\ clock' = clock + latency
    /\ client' = [client EXCEPT !.pc = "returned", !.response = "json"]
    /\ trace' = Append(trace, Event("ok", client.attempt, clock', 0))
    /\ UNCHANGED <<conversationVars, helperVars, concurrentVars, authVars, settings, stage>>

\* httpx.RequestError or httpx.HTTPStatusError: sleep and retry, or, on the
\* last attempt, return None
RequestFails(latency) ==
    /\ client.pc = "await"
    /\ clock' = clock + latency
    /\ trace' = Append(trace, Event("error", client.attempt, clock', 0))
    /\ client' = IF Retryable(client.attempt)
                 THEN [client EXCEPT !.pc = "sleep", !.failures = @ + 1,
                          !.wait_time = WaitTime(retry_backoff, client.attempt)]
                 ELSE [client EXCEPT !.pc = "returned", !.failures = @ + 1,
                          !.response = "None"]
    /\ UNCHANGED <<conversationVars, helperVars, concurrentVars, authVars, settings, stage>>

\* RequestBreaks that handles the exception as a transport error
RequestBreaksRetried(latency) ==
    /\ client.pc = "await"
    /\ clock' = clock + latency
    /\ trace' = Append(trace, Event("raise", client.attempt, clock', 0))
    /\ client' = IF Retryable(client.attempt)
                 THEN [client EXCEPT !.pc = "sleep",
                          !.wait_time = WaitTime(retry_backoff, client.attempt)]
                 ELSE [client EXCEPT !.pc = "raised"]
    /\ UNCHANGED <<conversationVars, helperVars, concurrentVars, authVars, settings, stage>>

\* any other exception (a body that is not JSON) is not caught
RequestBreaks(latency) ==
    /\ client.pc = "await"
    /\ clock' = clock + latency
    /\ trace' = Append(trace, Event("raise", client.attempt, clock', 0))
    /\ client' = [client EXCEPT !.pc = "raised"]
    /\ UNCHANGED <<conversationVars, helperVars, concurrentVars, authVars, settings, stage>>

\* await asyncio.sleep(wait_time), then the next iteration
Sleep(oversleep) ==
    /\ client.pc = "sleep"
    /\ clock' = clock + client.wait_time + oversleep
    /\ trace' = Append(trace, Event("sleep", client.attempt, clock', client.wait_time))
    /\ client' = [client EXCEPT !.pc = "loop", !.attempt = @ + 1]
    /\ UNCHANGED <<conversationVars, helperVars, concurrentVars, authVars, settings, stage>>

\* the end of the process_conversation call
Finish(ctx1, r, p) ==
    /\ session_context' = ctx1
    /\ result' = r
    /\ path' = p
    /\ stage' = "done"
    /\ UNCHANGED <<topic, accounts, conversation_history, message, scenario>>
    /\ UNCHANGED <<helperVars, concurrentVars, authVars, settings, client, clock, trace>>

\* D) entered: retry_ollama_request is called again
EnterFallback ==
    /\ stage' = "D"
    /\ client' = StartedClient
    /\ UNCHANGED <<conversationVars, helperVars, concurrentVars, authVars, settings, clock, trace>>

\* B) get_intent_from_llm has its response: no response or no JSON object
\* in its text give no intent, and D follows; an intent goes to C
ExtractionReturns(llm) ==
    /\ stage = "B"
    /\ client.pc = "returned"
    /\ LET intent == IF client.response = "None" THEN None
                     ELSE extract_transaction_intent(NoKeywords, llm)
       IN IF intent = None
          THEN EnterFallback
          ELSE \E draw \in DrawsFor(intent[1]) :
                  LET out == HandleIntent(intent[1], accounts, draw)
                  IN Finish([present |-> TRUE, pending_intent |-> Some(out.intent)],
                            out.result, Path("B", TRUE, TRUE, FALSE))

\* D) the open-ended generation has its response, or none
FallbackReturns ==
    /\ stage = "D"
    /\ client.pc = "returned"
    /\ Finish([present |-> TRUE, pending_intent |-> None],
              Fallback(client.response # "None"),
              [Path("B", TRUE, FALSE, TRUE) EXCEPT !.answered = client.response # "None"])

\* the exception of retry_ollama_request leaves process_conversation
Propagates ==
    /\ stage \in {"B", "D"}
    /\ client.pc = "raised"
    /\ Finish(IF stage = "D" THEN [present |-> TRUE, pending_intent |-> None]
              ELSE session_context,
              Raised("JSONDecodeError"), Path("B", TRUE, FALSE, stage = "D"))

ClientNext ==
    \/ IssueRequest
    \/ LoopExhausted
    \/ \E latency \in Latencies :
          \/ RequestSucceeds(latency)
          \/ RequestFails(latency)
          \/ RequestBreaks(latency)
    \/ \E oversleep \in Latencies : Sleep(oversleep)
    \/ \E llm \in LLMOutcomes(topic) : ExtractionReturns(llm)
    \/ FallbackReturns
    \/ Propagates

ClientSpec == ClientInit /\ [][ClientNext]_vars

\* the call is always scheduled to go on: the event loop resumes it after
\* every await
ClientLive == ClientSpec /\ WF_vars(ClientNext)

\* the entries of the trace with the given event, in their order
EventsOf(e) == SelectSeq(trace, LAMBDA ev : ev.event = e)

\* C11: retry_ollama_request ends, and with it the call that uses it; it
\* sends at most retry_attempts requests; a request that succeeds is the
\* last one it sends and its response is returned; it returns None exactly
\* when retry_attempts attempts, all of them, ended in a transport or server
\* error.
C11_RetryBounded ==
    /\ <>(stage = "done")
    /\ [](client.requests <= retry_attempts)
    /\ [](\A i \in DOMAIN trace :
             (trace[i].event = "ok" /\ i < Len(trace))
                => trace[i + 1].stage # trace[i].stage)
    /\ []((trace # <<>> /\ trace[Len(trace)].event = "ok"
              /\ trace[Len(trace)].stage = stage)
            => (client.pc = "returned" /\ client.response = "json"))
    /\ [](client.pc = "returned"
            => (client.response = "None"
                  <=> (client.failures = retry_attempts
                         /\ client.requests = retry_attempts)))

\* three attempts failed and None was returned
C11_Witness ==
    /\ retry_attempts = 3
    /\ stage = "B"
    /\ client.pc = "returned"
    /\ client.response = "None"
    /\ client.failures = 3

\* C12: in one retry_ollama_request call the delay after the failed attempt
\* k is backoff * 2^k; a delay is slept only when another attempt follows
\* it; and the attempt k + 1 starts no earlier than that delay after the
\* failure of the attempt k.
C12_BackoffSchedule ==
    \A i \in DOMAIN trace :
        /\ trace[i].event = "sleep"
             => (/\ trace[i].wait = retry_backoff * (2 ^ trace[i].attempt)
                 /\ trace[i].attempt + 1 < retry_attempts
                 /\ i < Len(trace)
                      => (/\ trace[i + 1].event = "request"
                          /\ trace[i + 1].stage = trace[i].stage
                          /\ trace[i + 1].attempt = trace[i].attempt + 1))
        /\ (trace[i].event = "error" /\ trace[i].attempt + 1 < retry_attempts
              /\ i < Len(trace))
             => (trace[i + 1].event = "sleep" /\ trace[i + 1].attempt = trace[i].attempt)
        /\ (trace[i].event = "error" /\ trace[i].attempt + 1 >= retry_attempts
              /\ i < Len(trace))
             => trace[i + 1].stage # trace[i].stage
        /\ (trace[i].event = "request" /\ trace[i].attempt > 0)
             => \E j \in 1..(i - 1) :
                   /\ trace[j].event = "error"
                   /\ trace[j].stage = trace[i].stage
                   /\ trace[j].attempt = trace[i].attempt - 1
                   /\ trace[i].at >= trace[j].at + retry_backoff * (2 ^ trace[j].attempt)

\* the third attempt of a call started after the delays 2 and 4
C12_Witness ==
    /\ retry_backoff = 2
    /\ Len(trace) = 7
    /\ trace[3].event = "sleep" /\ trace[3].wait = 2
    /\ trace[6].event = "sleep" /\ trace[6].wait = 4
    /\ trace[7].event = "request" /\ trace[7].attempt = 2

\* every attempt of the call failed
AllAttemptsFailed ==
    \A i \in DOMAIN trace : trace[i].event \in {"request", "error", "sleep"}

\* C13: with 3 attempts configured and every attempt failing, the call on a
\* fresh top-level message returns the LLM_UNAVAILABLE result after 3
\* requests and the 2 delays backoff and 2 * backoff, and no more.
C13_ThreeRequestsTwoDelays ==
    (stage = "done" /\ retry_attempts = 3 /\ AllAttemptsFailed)
    => (/\ result.error = "LLM_UNAVAILABLE"
        /\ Len(EventsOf("request")) = 3
        /\ Len(EventsOf("sleep")) = 2
        /\ EventsOf("sleep")[1].wait = retry_backoff
        /\ EventsOf("sleep")[2].wait = 2 * retry_backoff)

\* the slots of an intent that are not among the given ones are the same in
\* the two intents
SameExcept(a, b, slots) == \A f \in (DOMAIN a) \ slots : a[f] = b[f]

SourceSlots == {"source_account_id", "from_account_id"}
DestinationSlots == {"destination_account_id", "to_account_id"}

IsFinalized(r) == r.success /\ r.transaction_intent # None

\* the step identifiers of a result, in their order
StepNames(r) == [k \in DOMAIN r.flow_steps |-> r.flow_steps[k].step]

\* C22: a finalized result has success true, error None, a message, and the
\* step sequence of its operation: one account_info step on one account for
\* BALANCE_INQUIRY, the 4 withdrawal steps for WITHDRAW, 5 steps ending in
\* cash_deposit_review and cash_deposit_confirmation for CASH_DEPOSIT, 4
\* steps ending in check_deposit_confirmation for CHECK_DEPOSIT, 5 steps
\* ending in transfer_review and transfer_confirmation for TRANSFER, and no
\* step for CHANGE_PIN.
C22_FixedStepSequences ==
    IsFinalized(result) =>
      LET op == result.transaction_intent[1].operation
          steps == StepNames(result)
      IN /\ result.error = "None"
         /\ result.has_message
         /\ result.has_flow_steps
         /\ op \in {"BALANCE_INQUIRY", "WITHDRAW", "CASH_DEPOSIT", "CHECK_DEPOSIT",
                    "TRANSFER", "CHANGE_PIN"}
         /\ op = "BALANCE_INQUIRY"
              => (/\ steps = <<"account_info">>
                  /\ result.flow_steps[1].account_id # None
                  /\ HasAccount(accounts, result.flow_steps[1].account_id[1]))
         /\ op = "WITHDRAW"
              => steps = <<"account_selection", "withdrawal_amount",
                           "withdrawal_denomination", "withdrawal_confirm">>
         /\ op = "CASH_DEPOSIT"
              => (/\ Len(steps) = 5
                  /\ steps[4] = "cash_deposit_review"
                  /\ steps[5] = "cash_deposit_confirmation")
         /\ op = "CHECK_DEPOSIT"
              => (Len(steps) = 4 /\ steps[4] = "check_deposit_confirmation")
         /\ op = "TRANSFER"
              => (/\ Len(steps) = 5
                  /\ steps[4] = "transfer_review"
                  /\ steps[5] = "transfer_confirmation")
         /\ op = "CHANGE_PIN" => steps = <<>>

\* a CHANGE_PIN on account 1 returned its message without a step
C22_Witness ==
    /\ IsFinalized(result)
    /\ result.transaction_intent[1].operation = "CHANGE_PIN"
    /\ result.transaction_intent[1].account_id = Some(1)
    /\ result.has_message
    /\ result.flow_steps = <<>>

\* the last call extracted and got no intent: it called
\* extract_transaction_intent and did not reach validation and handling
ExtractedNoIntent == path.extracted /\ ~path.handled /\ result.raised = ""

\* the two results of the open-ended generation: LLM_UNAVAILABLE when the
\* request returned none, else success with the text and no flow steps
OpenEndedResult ==
    /\ path.fallback
    /\ ~path.answered => (~result.success /\ result.error = "LLM_UNAVAILABLE")
    /\ path.answered => (/\ result.success
                         /\ result.has_message
                         /\ ~result.has_flow_steps
                         /\ result.transaction_intent = None)

\* C23 as stated: whenever extraction yields no intent, the call issues the
\* open-ended generation request and returns LLM_UNAVAILABLE when that
\* request returned none, else success with the generator's text and no
\* flow steps.
C23_NoIntentFallsBack == ExtractedNoIntent => OpenEndedResult

\* C23 amended: whenever the extraction on a message that is not a
\* structured selection yields no intent, the call issues the open-ended
\* generation request and returns LLM_UNAVAILABLE when that request returned
\* none, else success with the generator's text and no flow steps.
C23_FreshNoIntentFallsBack ==
    (ExtractedNoIntent /\ path.branch = "B") => OpenEndedResult

\* a fresh message gave no intent and the open-ended request returned none
C23_Witness ==
    /\ ExtractedNoIntent
    /\ path.branch = "B"
    /\ path.fallback
    /\ ~path.answered
    /\ result.error = "LLM_UNAVAILABLE"

\* the account ids carried by the flow steps of a result
\* (preselected_account_id or account_id of a step)
StepAccountIds(r) ==
    {r.flow_steps[k].account_id[1] :
        k \in {j \in DOMAIN r.flow_steps : r.flow_steps[j].account_id # None}}

\* C25: every account id carried by the flow steps of a finalized result is
\* the id of an account of the snapshot of that call; an intent that
\* references an id outside the snapshot ends in ACCOUNT_NOT_FOUND, never in
\* a finalized flow, whatever its operation.
C25_FinalizedAccountsInSnapshot ==
    IsFinalized(result) =>
        \A id \in StepAccountIds(result) : HasAccount(accounts, id)

\* x > 0 on floats: true for inf, false for nan
GreaterThanZero(h) == h # NaNAmt /\ h > 0

\* the check sub-dialogue of the pending CHECK_DEPOSIT is open: the count is
\* not set, or fewer checks than the count are collected
SubDialogueOpen ==
    /\ PendingIs("CHECK_DEPOSIT")
    /\ \/ CollectingNumChecks(Pending.check_collection_state)
       \/ CollectingAmounts(Pending.check_collection_state)

\* the collection state of the pending CHECK_DEPOSIT is valid: a count that
\* is set is in 1..50 and every collected amount is greater than 0
CollectionValid(ctx) ==
    (ctx.pending_intent # None /\ ctx.pending_intent[1].operation = "CHECK_DEPOSIT")
    => LET state == ctx.pending_intent[1].check_collection_state
       IN /\ Truthy(state.num_checks) => state.num_checks[1] \in 1..MaxNumChecks
          /\ \A k \in DOMAIN state.checks : GreaterThanZero(state.checks[k].amount)

\* C27: a numeric message the open check sub-dialogue rejects (a count <= 0
\* or > 50, an amount <= 0) returns a non-success error and leaves the
\* pending intent as it was; so the count, once set, is in 1..50 and every
\* collected check amount is greater than 0.
C27_RejectionsKeepCollectionValid ==
    [][/\ (/\ SubDialogueOpen
           /\ \/ message'.kind = "number" /\ ~message'.positive
              \/ result'.error \in {"INVALID_NUMBER", "INVALID_AMOUNT"})
          => (/\ ~result'.success
              /\ result'.error \in {"INVALID_NUMBER", "INVALID_AMOUNT"}
              /\ session_context' = session_context)
       /\ CollectionValid(session_context')]_vars

\* C28: while the check sub-dialogue of a pending CHECK_DEPOSIT is open, a
\* message that is neither a number nor a structured selection returns the
\* re-prompt for a number (INVALID_FORMAT, for the count or for the amount
\* of the next check), leaves the pending intent with its collection state
\* unchanged and calls no intent extraction.
C28_NonNumericReprompts ==
    [][(SubDialogueOpen /\ message'.kind = "text")
          => (/\ ~result'.success
              /\ result'.error = "INVALID_FORMAT"
              /\ result'.has_message
              /\ result'.ask_index =
                    IF CollectingNumChecks(Pending.check_collection_state) THEN 0
                    ELSE Len(PendingChecks) + 1
              /\ session_context' = session_context
              /\ path'.branch = "A2"
              /\ ~path'.extracted
              /\ ~path'.handled
              /\ ~path'.fallback)]_vars

\* one of two checks is collected and a text was answered by the re-prompt
\* for the amount of check 2
C28_Witness ==
    /\ PendingIs("CHECK_DEPOSIT")
    /\ PendingNumChecks = Some(2)
    /\ Len(PendingChecks) = 1
    /\ message.kind = "text"
    /\ path.branch = "A2"
    /\ result.error = "INVALID_FORMAT"
    /\ result.ask_index = 2

\* the question for the source of a transfer over the given candidates
SourceQuestion(candidates) ==
    Clarification("True", "Which account would you like to transfer from?",
                  OptionsOf(candidates), <<"from_account_id is required">>)

\* the accounts of the stated type or, when no type is stated or none
\* matches, all accounts
TypeFiltered(accts, t) ==
    IF t # "" /\ AccountsOfType(accts, t) # <<>> THEN AccountsOfType(accts, t) ELSE accts

\* C29: step C on a TRANSFER intent without a source account id, on a
\* snapshot of two or more accounts, never fills the source in: it returns
\* the source question over the type-filtered candidates, also when the
\* stated source type matches exactly one account.
C29_SourceAutoFilledOnlyForSingleAccount ==
    (/\ Returned("process_conversation")
     /\ args[1].intent.operation = "TRANSFER"
     /\ ~Truthy(args[1].intent.source_account_id)
     /\ ~Truthy(args[1].intent.from_account_id)
     /\ Len(args[1].accounts) >= 2)
    => returned[1] = SourceQuestion(TypeFiltered(args[1].accounts,
                                                 args[1].intent.source_account_type))

\* C30: an error of a generation request that is neither a transport error
\* nor a server error is not retried: it is the last event of the call, no
\* request and no delay follow it, and the exception leaves
\* retry_ollama_request at the time the error occurred.
C30_OtherErrorsNotRetried ==
    \A i \in DOMAIN trace :
        trace[i].event = "raise"
          => (/\ i = Len(trace)
              /\ client.pc = "raised"
              /\ clock = trace[i].at
              /\ stage \in {trace[i].stage, "done"}
              /\ stage = "done" => result = Raised("JSONDecodeError"))

\* the second attempt of the extraction request, of three, broke and the
\* call ended with the exception
C30_Witness ==
    /\ retry_attempts = 3
    /\ stage = "done"
    /\ Len(trace) = 5
    /\ trace[2].event = "error"
    /\ trace[3].event = "sleep"
    /\ trace[5].event = "raise"
    /\ trace[5].attempt = 1
    /\ trace[5].stage = "B"
    /\ client.requests = 2

\* ------------------------------------- conversations served at the same time
\* The host awaits process_conversation inside each request; the event loop
\* runs a call up to its next await (a generation request) and may resume
\* any other call before the response arrives.
Conversations == {1, 2}

\* ContextOf that hands every call the context of conversation 1
ContextOfShared(c) == CHOOSE d \in Conversations : \A e \in Conversations : d <= e

\* the context a call works on, as the host handed it over
ContextOf(c) == calls[c].context

\* the snapshot of the conversations: a checking and a savings account
ConcurrentAccounts == <<[id |-> 1, type |-> "CHECKING"], [id |-> 2, type |-> "SAVINGS"]>>

\* the contexts the host hands over: no pending intent, a pending
\* CHECK_DEPOSIT that waits for its check count, a pending WITHDRAW that
\* waits for its account; every amount of these conversations is 50.50
ConcurrentContexts ==
    {[present |-> FALSE, pending_intent |-> None],
     [present |-> TRUE,
      pending_intent |-> Some([NullIntent("CHECK_DEPOSIT") EXCEPT !.account_id = Some(1)])],
     [present |-> TRUE,
      pending_intent |-> Some([NullIntent("WITHDRAW") EXCEPT !.amount = Some(101)])]}

\* the messages of these conversations: a selection, a number, a text
ConcurrentMessages ==
    {[kind |-> "select", val |-> 2, kw |-> NoKeywords],
     [kind |-> "number", val |-> 2, kw |-> NoKeywords],
     [kind |-> "text", val |-> 0, kw |-> NoKeywords]}

\* the logs of these conversations: empty, or one USER turn
ConcurrentHistories == {<<>>, <<[sender |-> "USER", kw |-> NoKeywords]>>}

\* what the generator returns in these conversations
ConcurrentOutcomes ==
    {None,
     Some([NullIntent("WITHDRAW") EXCEPT !.amount = Some(101)]),
     Some([NullIntent("CHECK_DEPOSIT") EXCEPT !.account_id = Some(1)]),
     Some([NullIntent("CASH_DEPOSIT") EXCEPT !.account_id = Some(1),
                                             !.amount = Some(101)])}

\* a call that has not started
IdleCall ==
    [pc |-> "idle", context |-> 0, message |-> NoMessage, val |-> 0, history |-> <<>>,
     context0 |-> [present |-> FALSE, pending_intent |-> None],
     llm |-> None, available |-> FALSE, draw |-> 0, result |-> NoResult]

\* where a call stands after a stretch of code without an await: its
\* position, the context as it leaves it, its result
Stretch(pc, ctx, r) == [pc |-> pc, context |-> ctx, result |-> r]

\* C) on the intent stored in the context
HandleInContext(intent, draw) ==
    LET out == HandleIntent(intent, ConcurrentAccounts, draw)
    IN Stretch("done", [present |-> TRUE, pending_intent |-> Some(out.intent)], out.result)

\* process_conversation from its entry to its first await or its return
Enter(ctx, msg, history, draw) ==
    IF msg.kind = "select"
    THEN IF ctx.pending_intent # None
         THEN HandleInContext(PatchSelection(ctx.pending_intent[1], msg.val), draw)
         ELSE IF LastUserTurn(history) = None
              THEN Stretch("done", ctx, ErrorResult("NO_PREVIOUS_INTENT"))
              ELSE Stretch("extracting", ctx, NoResult)
    ELSE IF ctx.pending_intent # None /\ ctx.pending_intent[1].operation = "CHECK_DEPOSIT"
         THEN LET a2 == CheckDepositReply(ctx.pending_intent[1], msg)
              IN IF a2.done THEN Stretch("done", ctx, a2.result)
                 ELSE HandleInContext(a2.intent, draw)
         ELSE Stretch("extracting", ctx, NoResult)

\* process_conversation from the return of extract_transaction_intent to
\* the await of D or to its return
AfterExtraction(ctx, msg, history, llm, draw) ==
    IF msg.kind = "select"
    THEN LET last_intent == extract_transaction_intent(LastUserTurn(history)[1], llm)
         IN IF last_intent = None
            THEN Stretch("done", ctx, ErrorResult("NO_PREVIOUS_INTENT"))
            ELSE HandleInContext(PatchSelection(last_intent[1], msg.val), draw)
    ELSE LET intent == extract_transaction_intent(msg.kw, llm)
         IN IF intent = None
            THEN Stretch("fallback", [present |-> TRUE, pending_intent |-> None], NoResult)
            ELSE HandleInContext(intent[1], draw)

\* process_conversation from the return of the request of D to its return
AfterFallback(ctx, available) == Stretch("done", ctx, Fallback(available))

\* the call run alone, with nothing else between its awaits, on the
\* context, the message and the responses it was given
Alone(call) ==
    LET msg == [kind |-> call.message.kind, val |-> call.val, kw |-> call.message.kw]
        e == Enter(call.context0, msg, call.history, call.draw)
        x == AfterExtraction(e.context, msg, call.history, call.llm, call.draw)
    IN IF e.pc = "done" THEN e
       ELSE IF x.pc = "done" THEN x
            ELSE AfterFallback(x.context, call.available)

ConcurrentInit ==
    /\ NoConversation
    /\ NoHelperCall
    /\ ClientNotFollowed
    /\ NoAuthentication
    /\ calls = [c \in Conversations |-> [IdleCall EXCEPT !.context = c]]
    /\ contexts \in [Conversations -> ConcurrentContexts]
    /\ host = [policy |-> "overlapping", given |-> contexts]

\* the call c has run a stretch of code on its context
Advance(c, call, stretch) ==
    /\ calls' = [calls EXCEPT ![c] = [call EXCEPT !.pc = stretch.pc,
                                                  !.result = stretch.result]]
    /\ contexts' = [contexts EXCEPT ![ContextOf(c)] = stretch.context]
    /\ UNCHANGED <<conversationVars, helperVars, clientVars, host, authVars>>

\* MayBegin that lets the calls of one conversation overlap
MayBeginAlways(c) == TRUE

\* whether the host may start call c: a host that keeps one call in flight
\* per conversation waits until no other call on the same context is running
MayBegin(c) ==
    host.policy = "one_at_a_time"
    => \A d \in Conversations \ {c} :
          calls[d].context = calls[c].context => calls[d].pc \in {"idle", "done"}

\* the host calls process_conversation for conversation c
Begin(c) ==
    /\ calls[c].pc = "idle"
    /\ MayBegin(c)
    /\ \E msg \in ConcurrentMessages, history \in ConcurrentHistories,
          draw \in FiftyDraws(101) :
          Advance(c, [calls[c] EXCEPT !.message = Observed(msg), !.val = msg.val,
                                      !.history = history, !.draw = draw,
                                      !.context0 = contexts[ContextOf(c)]],
                  Enter(contexts[ContextOf(c)], msg, history, draw))

\* the generation request of extract_transaction_intent returns to call c
ExtractionResumes(c) ==
    /\ calls[c].pc = "extracting"
    /\ \E llm \in ConcurrentOutcomes :
          Advance(c, [calls[c] EXCEPT !.llm = llm],
                  AfterExtraction(contexts[ContextOf(c)],
                                  [kind |-> calls[c].message.kind, val |-> calls[c].val,
                                   kw |-> calls[c].message.kw],
                                  calls[c].history, llm, calls[c].draw))

\* the generation request of D returns to call c
FallbackResumes(c) ==
    /\ calls[c].pc = "fallback"
    /\ \E available \in BOOLEAN :
          Advance(c, [calls[c] EXCEPT !.available = available],
                  AfterFallback(contexts[ContextOf(c)], available))

ConcurrentNext ==
    \E c \in Conversations :
        \/ Begin(c)
        \/ ExtractionResumes(c)
        \/ FallbackResumes(c)

ConcurrentSpec == ConcurrentInit /\ [][ConcurrentNext]_vars

\* two calls of one conversation on the same context value: the host starts
\* the second while the first is suspended, or keeps one call in flight
SameConversationInit ==
    /\ NoConversation
    /\ NoHelperCall
    /\ ClientNotFollowed
    /\ NoAuthentication
    /\ calls = [c \in Conversations |-> [IdleCall EXCEPT !.context = 1]]
    /\ contexts \in [{1} -> ConcurrentContexts]
    /\ host \in [policy : {"one_at_a_time", "overlapping"}, given : {contexts}]

SameConversationSpec == SameConversationInit /\ [][ConcurrentNext]_vars

\* ------------------------------------------------------- PIN authentication
\* the cards the host knows, with their PINs
pin_mapping == [c \in {"4111111111111111", "4222222222222222"} |->
                   IF c = "4111111111111111" THEN "1234" ELSE "5678"]

\* the card numbers and PINs a client sends
CardNumbers == DOMAIN pin_mapping \cup {"4000000000000000"}
Pins == {"1234", "5678", "0000"}

PinAuthResponse(ok, remaining, err) ==
    [NoResponse EXCEPT !.success = ok, !.remaining_attempts = remaining, !.error = err]

\* the rows the query for the existing session selects: the ACTIVE sessions
\* of the card
ExistingSessions(card_number) ==
    {i \in DOMAIN sessions :
        sessions[i].card_number = card_number /\ sessions[i].status = "ACTIVE"}

\* a new row of the sessions table
DBSession(card_number, attempts, token) ==
    [card_number |-> card_number, pin_attempts |-> attempts, status |-> "ACTIVE",
     has_jwt_token |-> token]

\* the end of authenticate_pin: the table as committed, and the response
Respond(card_number, pin, table, r) ==
    /\ Len(table) <= MaxSessions
    /\ sessions' = table
    /\ request' = [card_number |-> card_number, pin |-> pin]
    /\ response' = r
    /\ UNCHANGED <<conversationVars, helperVars, clientVars, concurrentVars>>

\* authenticate_pin once the card is known; existing is the row .first()
\* returned, 0 for None
VerifyPin(card_number, pin, existing) ==
    IF existing # 0 /\ sessions[existing].status = "LOCKED"
    THEN Respond(card_number, pin, sessions, PinAuthResponse(FALSE, 0, "ACCOUNT_LOCKED"))
    ELSE IF pin # pin_mapping[card_number]
    THEN IF existing # 0
         THEN LET attempts == sessions[existing].pin_attempts + 1
              IN IF attempts >= pin_max_attempts
                 THEN Respond(card_number, pin,
                              [sessions EXCEPT ![existing].pin_attempts = attempts,
                                               ![existing].status = "LOCKED"],
                              PinAuthResponse(FALSE, 0, "ACCOUNT_LOCKED"))
                 ELSE Respond(card_number, pin,
                              [sessions EXCEPT ![existing].pin_attempts = attempts],
                              PinAuthResponse(FALSE, pin_max_attempts - attempts,
                                              "INVALID_PIN"))
         ELSE Respond(card_number, pin, Append(sessions, DBSession(card_number, 1, FALSE)),
                      PinAuthResponse(FALSE, pin_max_attempts - 1, "INVALID_PIN"))
    ELSE LET table == IF existing # 0
                      THEN [sessions EXCEPT ![existing].pin_attempts = 0,
                                            ![existing].has_jwt_token = TRUE]
                      ELSE Append(sessions, DBSession(card_number, 0, TRUE))
         IN Respond(card_number, pin, table,
                    [PinAuthResponse(TRUE, pin_max_attempts, "")
                         EXCEPT !.has_session_id = TRUE, !.has_jwt_token = TRUE])

\* POST /auth/pin
authenticate_pin(card_number, pin) ==
    IF card_number \notin DOMAIN pin_mapping
    THEN Respond(card_number, pin, sessions, PinAuthResponse(FALSE, 0, "INVALID_ACCOUNT"))
    ELSE IF ExistingSessions(card_number) = {}
         THEN VerifyPin(card_number, pin, 0)
         ELSE \E existing \in ExistingSessions(card_number) :
                  VerifyPin(card_number, pin, existing)

AuthInit ==
    /\ NoConversation
    /\ NoHelperCall
    /\ ClientNotFollowed
    /\ NoConcurrentCalls
    /\ NoAuthentication

AuthNext == \E card_number \in CardNumbers, pin \in Pins : authenticate_pin(card_number, pin)

AuthSpec == AuthInit /\ [][AuthNext]_vars

\* C26: calls for distinct conversations, each on its own context, interleave
\* at their generation requests in any order: the result and the final
\* context of each call are those of the call run alone, and no step of a
\* call changes the context, and so the pending intent, of another
\* conversation.
C26_ConversationsIsolated ==
    /\ [](\A c \in Conversations :
             calls[c].pc = "done"
                => (/\ calls[c].result = Alone(calls[c]).result
                    /\ contexts[c] = Alone(calls[c]).context))
    /\ [][\A c \in Conversations :
             contexts'[c] # contexts[c]
                => (calls'[c] # calls[c]
                      /\ \A d \in Conversations \ {c} : calls'[d] = calls[d])]_vars

\* call 1 waited for its extraction while call 2 ran from start to end and
\* stored a pending intent; then call 1 fell back to D and ended
C26_Witness ==
    /\ calls[1].pc = "done"
    /\ calls[2].pc = "done"
    /\ calls[1].result.error = "LLM_UNAVAILABLE"
    /\ contexts[1] = [present |-> TRUE, pending_intent |-> None]
    /\ contexts[2].pending_intent # None
    /\ calls[2].context0.pending_intent = None
    /\ calls[2].llm # None

\* C31: the check sub-dialogue runs only after the account is resolved: a
\* pending CHECK_DEPOSIT whose check count is set, or that holds a collected
\* check, has its account_id set; a bare number sent while the account
\* question is open does not set the count.
C31_CollectionOnlyAfterAccount ==
    (/\ PendingIs("CHECK_DEPOSIT")
     /\ Truthy(PendingNumChecks) \/ PendingChecks # <<>>)
    => Truthy(Pending.account_id)

\* the result asks for the amount of check number k
AsksCheckAmount(r, k) ==
    /\ ~r.success
    /\ r.clarification_needed = "True"
    /\ r.question = "What is the amount of check #?"
    /\ r.ask_index = k

\* C32: with a resolved account, every numeric message the check
\* sub-dialogue accepts advances it by one state and never back: the
\* accepted count N leaves no check collected and asks for check #1; the
\* k-th accepted amount is appended to the k - 1 collected ones and, for
\* k < N, asks for check #(k + 1); the N-th accepted amount, and no earlier
\* one, returns the finalized flow.
C32_OneStatePerAcceptedNumber ==
    [][(/\ PendingIs("CHECK_DEPOSIT")
        /\ Truthy(Pending.account_id)
        /\ path'.branch = "A2"
        /\ session_context' # session_context)
       => LET before == Pending.check_collection_state
              after == session_context'.pending_intent[1].check_collection_state
              k == Len(after.checks)
          IN IF ~Truthy(before.num_checks)
             THEN /\ Truthy(after.num_checks)
                  /\ after.checks = <<>>
                  /\ AsksCheckAmount(result', 1)
             ELSE /\ after.num_checks = before.num_checks
                  /\ k = Len(before.checks) + 1
                  /\ k <= after.num_checks[1]
                  /\ SubSeq(after.checks, 1, k - 1) = before.checks
                  /\ k < after.num_checks[1]
                       => (AsksCheckAmount(result', k + 1) /\ ~IsFinalized(result'))
                  /\ k = after.num_checks[1]
                       => (/\ IsFinalized(result')
                           /\ HasStep(result', 2, "check_deposit_screen")
                           /\ result'.flow_steps[2].checks = after.checks)]_vars

\* the first of two amounts was accepted and the amount of check #2 is asked
C32_Witness ==
    /\ PendingIs("CHECK_DEPOSIT")
    /\ Truthy(Pending.account_id)
    /\ PendingNumChecks = Some(2)
    /\ Len(PendingChecks) = 1
    /\ path.branch = "A2"
    /\ path.handled
    /\ AsksCheckAmount(result, 2)

\* C33: for a message that mentions a checking account and none of the
\* words check, cheque, paycheck, the post-correction does not rewrite the
\* CASH_DEPOSIT or DEPOSIT of the generator to CHECK_DEPOSIT.
C33_CheckingAccountIsNoCheck ==
    (/\ Returned("extract_transaction_intent")
     /\ "checking" \in args[1].text
     /\ args[1].text \cap {"check", "cheque", "paycheck"} = {}
     /\ args[1].intent.operation \in {"CASH_DEPOSIT", "DEPOSIT"})
    => returned[1].operation # "CHECK_DEPOSIT"

\* the accounts that match an intent: those of its stated type, or all
\* accounts when it states none
Matching(intent, accts) ==
    IF intent.account_type = "" THEN accts
    ELSE SelectSeq(accts, LAMBDA a : a.type = intent.account_type)

\* C34: when an intent names no account and two or more accounts match, the
\* result is the clarification (success false, clarification_needed true,
\* error MISSING_FIELDS) whose options are exactly the matching accounts:
\* those of the stated type, or all when no type is stated.
C34_OptionsAreTheCandidates ==
    (/\ Returned("process_conversation")
     /\ args[1].intent.operation \in SingleAccountOperations \cup {"CHECK_DEPOSIT"}
     /\ ~Truthy(args[1].intent.account_id)
     /\ Len(Matching(args[1].intent, args[1].accounts)) >= 2)
    => (/\ ~returned[1].success
        /\ returned[1].clarification_needed = "True"
        /\ returned[1].error = "MISSING_FIELDS"
        /\ returned[1].options = OptionsOf(Matching(args[1].intent, args[1].accounts)))

\* C35: a CASH_DEPOSIT whose account is given is finalized with its 5 steps
\* whether or not an amount is known: with an amount greater than 0 the
\* cash_deposit_screen step carries a breakdown whose bills sum to
\* floor(amount); without an amount it carries no breakdown and nothing is
\* asked.
C35_CashDepositAmountOptional ==
    (/\ Returned("process_conversation")
     /\ args[1].intent.operation = "CASH_DEPOSIT"
     /\ Truthy(args[1].intent.account_id))
    => LET r == returned[1]
           amt == args[1].intent.amount
       IN /\ IsFinalized(r)
          /\ Len(r.flow_steps) = 5
          /\ r.flow_steps[3].step = "cash_deposit_screen"
          /\ r.question = ""
          /\ r.clarification_needed = "absent"
          /\ (amt # None /\ amt[1] > 0)
               => (/\ r.flow_steps[3].has_denominations
                   /\ BillsTotal(r.flow_steps[3].denominations) = IntOf(amt[1]))
          /\ amt = None => ~r.flow_steps[3].has_denominations

\* a deposit of 50.50 into account 1 returned a breakdown with a $50 bill
C35_Witness ==
    /\ Returned("process_conversation")
    /\ args[1].intent.operation = "CASH_DEPOSIT"
    /\ args[1].intent.account_id = Some(1)
    /\ args[1].intent.amount = Some(101)
    /\ IsFinalized(returned[1])
    /\ returned[1].flow_steps[3].has_denominations
    /\ returned[1].flow_steps[3].denominations[2] = 1

\* C36: after every chat turn, whatever the kind of its result (finalized,
\* clarification, error), the log ends with the USER turn of the message
\* followed by the ASSISTANT turn of the result, so the log alternates USER
\* and ASSISTANT turns.
C36_LogAlternates ==
    (message.kind # "none" /\ result.raised = "")
    => (/\ Len(conversation_history) = 2
        /\ conversation_history[1].sender = "USER"
        /\ conversation_history[2].sender = "ASSISTANT")

\* both calls of the conversation have returned
AllDone == \A c \in Conversations : calls[c].pc = "done"

\* the results of the two calls and the context they leave are those of
\* the call first run alone on the context as given, then the call second
\* run alone on the context the first one left
InOrder(first, second) ==
    LET a == Alone([calls[first] EXCEPT !.context0 = host.given[1]])
        b == Alone([calls[second] EXCEPT !.context0 = a.context])
    IN /\ calls[first].result = a.result
       /\ calls[second].result = b.result
       /\ contexts[1] = b.context

\* no store of a call was lost: the two calls came out as one after the other
NoPatchLost == InOrder(1, 2) \/ InOrder(2, 1)

\* C37: when the host keeps at most one call in flight per conversation, no
\* patch of the pending intent is lost: two calls on the same context come
\* out as run one after the other.  (When the calls overlap, the store of one
\* overwrites what the other wrote: the state of C37_Witness.)
C37_OneInFlightLosesNoPatch ==
    (host.policy = "one_at_a_time" /\ AllDone) => NoPatchLost

\* the calls overlapped: a selection waited for its re-extraction while a
\* text was extracted and stored; the selection then stored its own intent
\* over it, and the outcome is that of neither order
C37_Witness ==
    /\ host.policy = "overlapping"
    /\ AllDone
    /\ calls[1].message.kind = "select"
    /\ calls[2].message.kind = "text"
    /\ calls[1].llm # None
    /\ calls[2].llm # None
    /\ ~NoPatchLost

\* the call returned a result (it did not raise)
ResultReturned == message # NoMessage /\ result.raised = ""

\* the error of a result is none: the key is absent or holds None
ErrorIsNone(r) == r.error \in {"", "None"}

\* C38: every result returned by process_conversation is consistent in its
\* status fields: success is true exactly when error is none, a result with
\* clarification_needed true has success false and error MISSING_FIELDS, and
\* a result with success false carries no flow_steps.
C38_StatusFieldsConsistent ==
    ResultReturned =>
        /\ result.success <=> ErrorIsNone(result)
        /\ result.clarification_needed = "True"
               => ~result.success /\ result.error = "MISSING_FIELDS"
        /\ ~result.success => ~result.has_flow_steps

\* a clarification was returned: success false, error MISSING_FIELDS and no
\* flow steps
C38_Witness ==
    /\ ResultReturned
    /\ result.clarification_needed = "True"
    /\ ~result.success
    /\ result.error = "MISSING_FIELDS"
    /\ ~result.has_flow_steps

\* the USER turns of a history, oldest first
UserTurns(history) == SelectSeq(history, LAMBDA t : t.sender = "USER")

\* the call resolved the selection against a turn with keywords kw: the
\* turn was extracted to an intent, the selected id patched into it, and
\* the patched intent stored and handled
ResolvedAgainst(kw) ==
    \E llm \in LLMOutcomes(topic) :
        LET last_intent == extract_transaction_intent(kw, llm)
        IN /\ last_intent # None
           /\ LET patched == PatchSelection(last_intent[1], message'.id)
              IN \E draw \in DrawsFor(patched) :
                    LET out == HandleIntent(patched, accounts, draw)
                    IN /\ result' = out.result
                       /\ session_context'
                              = [present |-> TRUE, pending_intent |-> Some(out.intent)]

\* C39: a structured account selection received when the context holds no
\* pending intent is resolved against the most recent USER turn of the
\* history by re-extracting that turn; when there is no USER turn or the
\* re-extraction yields no intent, the result is success false with error
\* NO_PREVIOUS_INTENT, no pending intent is stored in the context and the
\* open-ended fallback is not invoked.
C39_SelectionWithoutPendingReextracts ==
    [][(message'.kind = "select" /\ ~HasPending) =>
          LET turns == UserTurns(conversation_history)
          IN /\ path'.branch = "A1"
             /\ ~path'.fallback
             /\ path'.extracted <=> turns # <<>>
             /\ turns = <<>> => ~path'.handled
             /\ IF path'.handled
                THEN ResolvedAgainst(turns[Len(turns)].kw)
                ELSE /\ ~result'.success
                     /\ result'.error = "NO_PREVIOUS_INTENT"
                     /\ session_context' = session_context
                     /\ ~HasPending']_vars

\* a selection arrived without a pending intent after a text that mentions a
\* check; the text was re-extracted, and the intent it gave was stored
C39_Witness ==
    /\ message.kind = "select"
    /\ path.branch = "A1"
    /\ path.extracted
    /\ path.handled
    /\ HasPending
    /\ Pending.operation = "CHECK_DEPOSIT"
    /\ Pending.account_id = Some(message.id)

\* a session of the card was locked by pin_max_attempts wrong PINs in a row
IsLocked(card_number) ==
    \E i \in DOMAIN sessions :
        /\ sessions[i].card_number = card_number
        /\ sessions[i].status = "LOCKED"

\* C40: once pin_max_attempts consecutive wrong PINs for a card have locked
\* its session, every later authenticate_pin call for that card returns
\* ACCOUNT_LOCKED with remaining_attempts 0 and issues no token, also when
\* the correct PIN is presented; remaining_attempts in every response is
\* between 0 and pin_max_attempts.
C40_LockoutHoldsAcrossAttempts ==
    [][/\ IsLocked(request'.card_number)
          => /\ response'.error = "ACCOUNT_LOCKED"
             /\ response'.remaining_attempts = 0
             /\ ~response'.success
             /\ ~response'.has_jwt_token
       /\ response'.remaining_attempts \in 0..pin_max_attempts]_vars
====
